---- MODULE Spec2Model ----
(***************************************************************************)
(* State-machine model of the opspilot-backend ingest and identity core:   *)
(*   - the adaptive pull loop of the two JetStream consumers,              *)
(*   - per-message processing with ack / nak / term,                       *)
(*   - the enrollment handler and the credential lifecycle,                *)
(*   - the RPC client's deadline and error mapping,                        *)
(*   - presence: KV watcher, last_seen keys and the two offline workers,   *)
(*   - the conflict service and the event hub behind the SSE stream,       *)
(*   - bootstrap-token CIDR checks, the agent upsert and the conflict      *)
(*     resolution handler, each called on its own.                         *)
(* Every database call is one atomic step; handlers that run concurrently  *)
(* interleave between their database calls.  OnAgentConnect and the       *)
(* workers' handlers, which are called one at a time, are one step each.   *)
(***************************************************************************)
EXTENDS Integers, Sequences, FiniteSets, TLC

\* ------------------------------------------------------------------ bounds
\* Cap on the consecutive-full / consecutive-empty counters, which the code
\* lets grow without limit once fetchSize sits at minFetch or maxFetch.
MaxCount == 4
\* Number of enrollment requests per run that pass token validation.
MaxStarted == 3
\* Number of key pairs the server generates in a run (console create, rotation).
MaxGen == 2
\* maxUses of the limited bootstrap token t1.
TokenMaxUses == 2

\* ------------------------------------------------------- program constants
InitFetch == 64
MinFetchEvents == 8
MaxFetchEvents == 512
MinFetchInventory == 32
MaxFetchInventory == 256
AdaptAfter == 3

Consumers == {"events", "inventory"}

minFetch(c) == IF c = "events" THEN MinFetchEvents ELSE MinFetchInventory
maxFetch(c) == IF c = "events" THEN MaxFetchEvents ELSE MaxFetchInventory

VARIABLES
    fetchSize,      \* [Consumers -> Int]   consumeLoop local
    fullCount,      \* [Consumers -> Nat]   consumeLoop local
    emptyCount,     \* [Consumers -> Nat]   consumeLoop local
    agents,         \* table agents: [AgentIds -> row]
    creds,          \* table agent_credentials: set of rows
    tokens,         \* table bootstrap_tokens: [Tokens -> row]
    genCount,       \* number of key pairs the server has generated
    enr,            \* [Slots -> in-flight EnrollAgent request]
    nStarted,       \* number of requests that passed token validation
    hist,           \* history of completed operations (not program state)
    stream,         \* [Consumers -> sequence of stream messages]
    con,            \* [Consumers -> position of the consume loop]
    incidents,      \* table incidents: set of rows
    snapshots,      \* table agents_inventory: set of rows
    dbFails,        \* number of the consumers' storage calls that have failed
    rpc,            \* the ExecAction call of an HTTP request in progress
    subs,           \* agents subscribed to their subject ops.<agent>.rpc
    clock,          \* wall clock, in seconds
    lastSeen,       \* cache keys ops:agent:last_seen:<agent>, with their expiry
    cstatus,        \* cache keys ops:agent:status:<agent>
    agentRows,      \* status and last_seen_at of the rows of table agents
    expq,           \* channel of the subscription to the cache's expired events
    recon,          \* the cache server's setting and the workers main started
    beats,          \* per agent: KV entries handled, last time written (history)
    conns,          \* table agent_connections, in order of connected_at
    conflicts,      \* table agent_conflicts, in order of insertion
    hub,            \* conflictEventHub: queue and subscriber channels
    lastConnect,    \* the last OnAgentConnect call and what it did (history)
    fetched,        \* per loop: was the last fetch full, and how many full
                    \* fetches in a row at the present fetchSize (history)
    lastCall,       \* the last call made on its own, its arguments and its
                    \* result (history)
    ctxDone,        \* main's root context has been cancelled
    watch,          \* KVWatcher.watchLoop: its position and what it handled
    hl              \* conflictEventHub step by step: mutex, forwarder,
                    \* channels

fetchVars == <<fetchSize, fullCount, emptyCount>>
enrollVars == <<agents, creds, tokens, genCount, enr, nStarted, hist>>
ingestVars == <<stream, con, incidents, snapshots, dbFails>>
rpcVars == <<rpc, subs>>
presVars == <<clock, lastSeen, cstatus, agentRows, expq, recon, beats>>
conflictVars == <<conns, conflicts, hub, lastConnect>>
lateVars == <<ctxDone, watch, hl>>
auxVars == <<rpcVars, presVars, conflictVars, fetched, lastCall, lateVars>>
vars == <<fetchSize, fullCount, emptyCount, agents, creds, tokens, genCount,
          enr, nStarted, hist, stream, con, incidents, snapshots, dbFails,
          rpc, subs,
          clock, lastSeen, cstatus, agentRows, expq, recon, beats,
          conns, conflicts, hub, lastConnect, fetched, lastCall,
          ctxDone, watch, hl>>

\* ------------------------------------------------- adaptive fetch control
\* The controller state of one loop is the record [fs, full, empty].
Ctl(c) == [fs |-> fetchSize[c], full |-> fullCount[c], empty |-> emptyCount[c]]

\* Mutation of OnEmpty: halves without the lower clamp.
OnEmptyNoClamp(st, c) ==
    LET e == st.empty + 1 IN
    IF e >= AdaptAfter
    THEN [fs |-> st.fs \div 2, full |-> 0, empty |-> 0]
    ELSE [fs |-> st.fs, full |-> 0, empty |-> e]

\* Fetch returned an error (timeout or other) or zero messages.
OnEmpty(st, c) ==
    LET e == st.empty + 1 IN
    IF e >= AdaptAfter /\ st.fs > minFetch(c)
    THEN [fs    |-> IF st.fs \div 2 < minFetch(c) THEN minFetch(c) ELSE st.fs \div 2,
          full  |-> 0,
          empty |-> 0]
    ELSE [fs |-> st.fs, full |-> 0, empty |-> e]

\* Mutation of OnFull: doubles one full fetch early.
OnFullAfterTwo(st, c) ==
    LET f == st.full + 1 IN
    IF f >= AdaptAfter - 1 /\ st.fs < maxFetch(c)
    THEN [fs    |-> IF st.fs * 2 > maxFetch(c) THEN maxFetch(c) ELSE st.fs * 2,
          full  |-> 0,
          empty |-> 0]
    ELSE [fs |-> st.fs, full |-> f, empty |-> 0]

\* Fetch returned exactly fetchSize messages.
OnFull(st, c) ==
    LET f == st.full + 1 IN
    IF f >= AdaptAfter /\ st.fs < maxFetch(c)
    THEN [fs    |-> IF st.fs * 2 > maxFetch(c) THEN maxFetch(c) ELSE st.fs * 2,
          full  |-> 0,
          empty |-> 0]
    ELSE [fs |-> st.fs, full |-> f, empty |-> 0]

\* Fetch returned between 1 and fetchSize-1 messages.
OnPartial(st) == [fs |-> st.fs, full |-> 0, empty |-> 0]

\* Mutation of AdaptFetch: a failed fetch does not count as empty.
AdaptFetchFailureIgnored(st, c, n, failed) ==
    IF failed THEN st
    ELSE IF n = 0 THEN OnEmpty(st, c)
    ELSE IF n = st.fs THEN OnFull(st, c)
    ELSE OnPartial(st)

\* One pass of the adaptation for a fetch that returned n messages, or failed.
AdaptFetch(st, c, n, failed) ==
    IF failed \/ n = 0 THEN OnEmpty(st, c)
    ELSE IF n = st.fs THEN OnFull(st, c)
    ELSE OnPartial(st)

SetCtl(c, st) ==
    /\ st.full <= MaxCount /\ st.empty <= MaxCount
    /\ fetchSize'  = [fetchSize  EXCEPT ![c] = st.fs]
    /\ fullCount'  = [fullCount  EXCEPT ![c] = st.full]
    /\ emptyCount' = [emptyCount EXCEPT ![c] = st.empty]

\* Batch lengths a Fetch(fetchSize) can return, by representative.
BatchLens(c) == {0, 1, fetchSize[c] - 1, fetchSize[c]}

\* The record of the fetches of loop c after one that was full, or empty
\* (no message, a timeout or an error), or neither.
LogFetch(c, full, empty) ==
    fetched' = [fetched EXCEPT ![c] =
                  [full |-> full,
                   fulls |-> IF full /\ fetchSize'[c] = fetchSize[c]
                             THEN @.fulls + 1 ELSE 0,
                   empty |-> empty,
                   empties |-> IF empty /\ fetchSize'[c] = fetchSize[c]
                               THEN @.empties + 1 ELSE 0]]

FetchTimeout(c) ==
    /\ SetCtl(c, AdaptFetch(Ctl(c), c, 0, TRUE))
    /\ LogFetch(c, FALSE, TRUE)
    /\ UNCHANGED <<enrollVars, ingestVars, rpcVars, presVars, conflictVars, lastCall, lateVars>>

FetchError(c) ==
    /\ SetCtl(c, AdaptFetch(Ctl(c), c, 0, TRUE))
    /\ LogFetch(c, FALSE, TRUE)
    /\ UNCHANGED <<enrollVars, ingestVars, rpcVars, presVars, conflictVars, lastCall, lateVars>>

FetchBatch(c) ==
    /\ \E n \in BatchLens(c) :
          /\ SetCtl(c, AdaptFetch(Ctl(c), c, n, FALSE))
          /\ LogFetch(c, n = fetchSize[c], n = 0)
    /\ UNCHANGED <<enrollVars, ingestVars, rpcVars, presVars, conflictVars, lastCall, lateVars>>

InitFetchCtl ==
    /\ fetchSize  = [c \in Consumers |-> InitFetch]
    /\ fullCount  = [c \in Consumers |-> 0]
    /\ emptyCount = [c \in Consumers |-> 0]
    /\ fetched = [c \in Consumers |->
                   [full |-> FALSE, fulls |-> 0, empty |-> FALSE, empties |-> 0]]

\* ------------------------------------------------------------------------
\* Persistence: agents, agent_credentials, bootstrap_tokens
\* ------------------------------------------------------------------------
AgentIds == {"a1", "a2"}
Hosts == {"h1"}
TokenIds == {"t1", "t2"}
Slots == {1, 2}

\* Signing keys. Agents bring their own; the server generates fresh ones.
NoKey == [src |-> "none", n |-> 0]
AgentKey(i) == [src |-> "agent", n |-> i]
ServerKey(i) == [src |-> "server", n |-> i]
AgentKeys == {AgentKey(1), AgentKey(2)}

\* A jsonb tag list, or SQL NULL / a nil slice.
NilTags == [isNil |-> TRUE, vals |-> {}]
Tags(s) == [isNil |-> FALSE, vals |-> s]

NoAgentRow ==
    [present |-> FALSE, org |-> "", name |-> "", hostname |-> "", status |-> "",
     tags |-> NilTags, fp |-> "", via |-> ""]

\* INSERT INTO agents ... ON CONFLICT (agent_id) DO UPDATE SET ...
\* "" stands for SQL NULL where the code passes nullIfEmpty(..).
UpsertAgentRow(old, in) ==
    LET proposedTags == IF in.tags.isNil THEN Tags({}) ELSE in.tags IN
    IF ~old.present
    THEN [present |-> TRUE, org |-> in.org, name |-> in.name,
          hostname |-> in.hostname, status |-> in.status, tags |-> proposedTags,
          fp |-> in.fp, via |-> in.via]
    ELSE [present  |-> TRUE,
          org      |-> IF in.org # "" THEN in.org ELSE old.org,
          name     |-> IF in.name # "" THEN in.name ELSE old.name,
          hostname |-> in.hostname,
          status   |-> in.status,
          tags     |-> proposedTags,
          fp       |-> IF in.fp # "" THEN in.fp ELSE old.fp,
          via      |-> IF in.via # "" THEN in.via ELSE old.via]

\* Storage.CreateAgent called for agent a with the row in; db.Exec succeeds
\* or returns an error, and then no row is written.
CreateAgent(a, in, ok) ==
    /\ agents' = [agents EXCEPT ![a] = IF ok THEN UpsertAgentRow(@, in) ELSE @]
    /\ lastCall' = [op |-> "CreateAgent", agent |-> a, old |-> agents[a],
                    in |-> in, ok |-> ok]
    /\ UNCHANGED <<creds, tokens, genCount, enr, nStarted, hist>>
    /\ UNCHANGED <<fetchVars, ingestVars, rpcVars, presVars, conflictVars,
                   fetched, lateVars>>

\* The rows callers hand to CreateAgent.
AgentInputs ==
    [org : {"", "o2"}, name : {"", "n2"}, hostname : {"h1"},
     status : {"online"}, tags : {NilTags, Tags({}), Tags({"prod"})},
     fp : {"", "fp2"}, via : {""}]

NextUpsert ==
    \E in \in AgentInputs, ok \in BOOLEAN : CreateAgent("a1", in, ok)

\* The agent row Storage.EnrollAgent builds from the request and the token.
EnrollAgentInput(orgID, host, fp, tokenID) ==
    [org |-> orgID, name |-> "", hostname |-> host, status |-> "online",
     tags |-> Tags(tokens[tokenID].tags), fp |-> fp, via |-> tokenID]

\* SELECT public_key ... WHERE is_pinned AND revoked_at IS NULL LIMIT 1:
\* the keys the query may return; {NoKey} when no row matches.
GetPinnedPublicKey(a) ==
    LET rows == {c \in creds : c.agent = a /\ c.pinned /\ ~c.revoked} IN
    IF rows = {} THEN {NoKey} ELSE {c.key : c \in rows}

\* idx_one_pinned_credential admits the new row.
PinnedIndexFree(rows, a, pinned) ==
    ~pinned \/ ~\E c \in rows : c.agent = a /\ c.pinned /\ ~c.revoked

\* UNIQUE(agent_id, public_key) admits the new row.
AgentKeyFree(rows, a, k) == ~\E c \in rows : c.agent = a /\ c.key = k

\* Mutation of CanInsertCredential: the partial unique index is missing.
CanInsertCredentialNoPinnedIndex(rows, a, k, pinned) ==
    /\ agents[a].present
    /\ AgentKeyFree(rows, a, k)

\* INSERT INTO agent_credentials succeeds: foreign key and both unique indexes.
CanInsertCredential(rows, a, k, pinned) ==
    /\ agents[a].present
    /\ AgentKeyFree(rows, a, k)
    /\ PinnedIndexFree(rows, a, pinned)

CredRow(a, k, pinned) == [agent |-> a, key |-> k, pinned |-> pinned, revoked |-> FALSE]

\* UPDATE agent_credentials SET revoked_at = now() WHERE agent_id = a AND revoked_at IS NULL
RevokeAllActive(rows, a) ==
    {IF c.agent = a THEN [c EXCEPT !.revoked = TRUE] ELSE c : c \in rows}

\* --- bootstrap-token validation
ValidIPs == {"10.1.2.3", "192.168.0.1"}
RemoteIPs == ValidIPs \cup {"not-an-ip"}
\* net.ParseIP on the strings used here: the four octets, or <<>> for nil.
ParseIP(str) ==
    CASE str = "10.1.2.3" -> <<10, 1, 2, 3>>
      [] str = "10.200.0.1" -> <<10, 200, 0, 1>>
      [] str = "192.168.0.1" -> <<192, 168, 0, 1>>
      [] OTHER -> <<>>
\* net.ParseCIDR on the strings used here; bits = -1 for an error.
ParseCIDR(str) ==
    CASE str = "10.0.0.0/8" -> [base |-> <<10, 0, 0, 0>>, bits |-> 8]
      [] str = "10.0.0.0/9" -> [base |-> <<10, 0, 0, 0>>, bits |-> 9]
      [] str = "192.168.0.0/16" -> [base |-> <<192, 168, 0, 0>>, bits |-> 16]
      [] OTHER -> [base |-> <<>>, bits |-> -1]
\* Mutation of CidrContains: only whole octets of the prefix are compared.
CidrContainsWholeOctets(cidr, ip) ==
    LET net == ParseCIDR(cidr)
        o == ParseIP(ip)
    IN /\ net.bits >= 0
       /\ \A i \in 1..(net.bits \div 8) : o[i] = net.base[i]

\* network.Contains(ip): the first bits of address and network agree.
CidrContains(cidr, ip) ==
    LET net == ParseCIDR(cidr)
        o == ParseIP(ip)
        Drop(i) == LET b == net.bits - 8 * (i - 1)
                   IN 2 ^ (IF b >= 8 THEN 0 ELSE IF b <= 0 THEN 8 ELSE 8 - b)
    IN /\ net.bits >= 0
       /\ \A i \in 1..4 : o[i] \div Drop(i) = net.base[i] \div Drop(i)

ipAllowed(remoteIP, cidrs) ==
    /\ ParseIP(remoteIP) # <<>>
    /\ \E cidr \in cidrs : CidrContains(cidr, remoteIP)

\* getClientIP: the first entry of X-Forwarded-For (xff, already split at
\* the commas and trimmed; <<>> when the header is absent), else X-Real-IP,
\* else the host part of RemoteAddr.
getClientIP(req) ==
    IF req.xff # <<>> THEN req.xff[1]
    ELSE IF req.xri # "" THEN req.xri
    ELSE req.host

\* Mutation of ValidateBootstrapToken: the usage-limit test is off by one.
ValidateBootstrapTokenOffByOne(tok, remoteIP) ==
    IF tok \notin TokenIds THEN "TokenNotFound"
    ELSE LET row == tokens[tok] IN
         IF row.revoked THEN "TokenRevoked"
         ELSE IF row.expired THEN "TokenExpired"
         ELSE IF row.hasMax /\ row.useCount > row.maxUses THEN "TokenUsageLimitReached"
         ELSE IF row.cidrs # {} /\ ~ipAllowed(remoteIP, row.cidrs) THEN "TokenIPNotAllowed"
         ELSE "ok"

ValidateBootstrapToken(tok, remoteIP) ==
    IF tok \notin TokenIds THEN "TokenNotFound"
    ELSE LET row == tokens[tok] IN
         IF row.revoked THEN "TokenRevoked"
         ELSE IF row.expired THEN "TokenExpired"
         ELSE IF row.hasMax /\ row.useCount >= row.maxUses THEN "TokenUsageLimitReached"
         ELSE IF row.cidrs # {} /\ ~ipAllowed(remoteIP, row.cidrs) THEN "TokenIPNotAllowed"
         ELSE "ok"

\* Storage.CreateBootstrapToken: a fresh token row with the given list of
\* allowed CIDRs (an empty list is stored as NULL).
CreateBootstrapToken(t, cidrs) ==
    /\ tokens' = [tokens EXCEPT ![t] =
                    [@ EXCEPT !.cidrs = cidrs, !.useCount = 0,
                              !.revoked = FALSE, !.expired = FALSE]]
    /\ UNCHANGED <<agents, creds, genCount, enr, nStarted, hist>>
    /\ UNCHANGED <<fetchVars, ingestVars, auxVars>>

\* EnrollAgent up to ValidateBootstrapToken, for a request that passes the
\* screening: what the token validation answers.
CheckBootstrapToken(t, req) ==
    /\ lastCall' = [op |-> "ValidateBootstrapToken", tok |-> t,
                    cidrs |-> tokens[t].cidrs, remoteIP |-> getClientIP(req),
                    result |-> ValidateBootstrapToken(t, getClientIP(req))]
    /\ UNCHANGED <<fetchVars, enrollVars, ingestVars, rpcVars, presVars,
                   conflictVars, fetched, lateVars>>

\* Token t1 keeps its empty list; t2 is created with every list.
NextTokenIP ==
    \/ \E t \in {"t2"},
          cidrs \in SUBSET {"10.0.0.0/8", "10.0.0.0/9", "192.168.0.0/16", "10.0.0.0/33"} :
          CreateBootstrapToken(t, cidrs)
    \/ \E t \in TokenIds,
          xff \in {<<>>, <<"10.1.2.3">>, <<"10.200.0.1", "192.168.0.1">>, <<"", "10.1.2.3">>},
          xri \in {"", "192.168.0.1", " 10.1.2.3"},
          host \in {"10.1.2.3", "192.168.0.1", "10.200.0.1", ""} :
          CheckBootstrapToken(t, [xff |-> xff, xri |-> xri, host |-> host])

\* --- request screening before any database access
\* A request is described by the defects it has.
Defects == {"noToken", "missingField", "badIdLength", "badSignature", "staleTimestamp"}

PreValidate(d) ==
    IF "noToken" \in d THEN "MissingToken"
    ELSE IF "missingField" \in d THEN "MissingFields"
    ELSE IF "badIdLength" \in d THEN "InvalidAgentId"
    ELSE IF "badSignature" \in d THEN "InvalidSignature"
    ELSE IF "staleTimestamp" \in d THEN "TimestampExpired"
    ELSE "ok"

HttpStatus(resp) ==
    CASE resp = "Created" -> 201
      [] resp \in {"MissingFields", "InvalidAgentId"} -> 400
      [] resp \in {"MissingToken", "InvalidSignature", "TimestampExpired",
                   "TokenNotFound", "TokenRevoked", "TokenExpired",
                   "TokenUsageLimitReached", "TokenIPNotAllowed"} -> 401
      [] resp \in {"ForbiddenOrg", "ForbiddenKey"} -> 403
      [] OTHER -> 500

\* ------------------------------------------------------------------------
\* EnrollmentHandler.EnrollAgent, one step per database call
\* ------------------------------------------------------------------------
Snapshot == [agents |-> agents, creds |-> creds, tokens |-> tokens, hist |-> hist]

InitAgents == [a \in AgentIds |-> NoAgentRow]
InitTokens ==
    [t \in TokenIds |->
        IF t = "t1"
        THEN [org |-> "o1", tags |-> {"prod"}, hasMax |-> TRUE, maxUses |-> TokenMaxUses,
              useCount |-> 0, revoked |-> FALSE, hasExpiry |-> FALSE, expired |-> FALSE,
              cidrs |-> {}]
        ELSE [org |-> "o2", tags |-> {}, hasMax |-> FALSE, maxUses |-> 0,
              useCount |-> 0, revoked |-> FALSE, hasExpiry |-> TRUE, expired |-> FALSE,
              cidrs |-> {"10.0.0.0/8"}]]

\* What has completed so far: successful enrollments per token, the first key
\* each agent registered, and key and token of the agent's latest successful
\* enrollment (forgotten when its credentials are rotated).
InitHist ==
    [succ     |-> [t \in TokenIds |-> 0],
     firstKey |-> [a \in AgentIds |-> NoKey],
     lastKey  |-> [a \in AgentIds |-> NoKey],
     lastTok  |-> [a \in AgentIds |-> ""]]

IdleReq ==
    [pc |-> "idle", agent |-> "", key |-> NoKey, host |-> "", tok |-> "",
     existingKey |-> NoKey, resp |-> "",
     pre |-> [agents |-> InitAgents, creds |-> {}, tokens |-> InitTokens,
              hist |-> InitHist]]

AllIdle == \A r \in Slots : enr[r].pc = "idle"

\* Keys a request may present.
EnrollKeys == AgentKeys
DefectSets == {{d} : d \in Defects} \cup {Defects}

Finish(r, resp) == enr' = [enr EXCEPT ![r].pc = "done", ![r].resp = resp]

\* Request received: screening, then ValidateBootstrapToken (lines 29-93).
\* A names the agent ids requests are drawn from and D the ways a request can
\* be malformed; with remember, the database state at the start of the request
\* is kept for comparison at its end.
Begin(r, A, D, remember) ==
    /\ enr[r].pc = "idle"
    /\ LET pre == IF remember THEN Snapshot ELSE IdleReq.pre IN
       \/ \E d \in D :
            /\ PreValidate(d) # "ok"
            /\ enr' = [enr EXCEPT ![r] =
                  [IdleReq EXCEPT !.pc = "done", !.resp = PreValidate(d), !.pre = pre]]
            /\ UNCHANGED nStarted
       \/ \E t \in TokenIds \cup {"bogus"}, ip \in RemoteIPs :
            /\ ValidateBootstrapToken(t, ip) # "ok"
            /\ enr' = [enr EXCEPT ![r] =
                  [IdleReq EXCEPT !.pc = "done", !.resp = ValidateBootstrapToken(t, ip),
                                  !.tok = t, !.pre = pre]]
            /\ UNCHANGED nStarted
       \/ \E a \in A, k \in EnrollKeys, h \in Hosts, t \in TokenIds, ip \in RemoteIPs :
            /\ ValidateBootstrapToken(t, ip) = "ok"
            /\ nStarted < MaxStarted
            /\ enr' = [enr EXCEPT ![r] =
                  [pc |-> "getAgent", agent |-> a, key |-> k, host |-> h, tok |-> t,
                   existingKey |-> NoKey, resp |-> "", pre |-> pre]]
            /\ nStarted' = nStarted + 1
    /\ UNCHANGED <<agents, creds, tokens, genCount, hist>>
    /\ UNCHANGED <<fetchVars, ingestVars, auxVars>>

\* Mutation of OtherOrganization: a row without organization counts as
\* another organization's.
OtherOrganizationOrNone(existing, btOrg) ==
    existing.present /\ existing.org # btOrg

\* existing != nil && existing.OrgID != "" && existing.OrgID != bt.OrgID
OtherOrganization(existing, btOrg) ==
    existing.present /\ existing.org # "" /\ existing.org # btOrg

\* GetAgentByAgentID and the cross-organization test (lines 95-103).
EnrollGetAgent(r) ==
    /\ enr[r].pc = "getAgent"
    /\ LET existing == agents[enr[r].agent]
           btOrg == tokens[enr[r].tok].org
       IN IF OtherOrganization(existing, btOrg)
          THEN Finish(r, "ForbiddenOrg")
          ELSE enr' = [enr EXCEPT ![r].pc = "getKey"]
    /\ UNCHANGED <<agents, creds, tokens, genCount, hist, nStarted>>
    /\ UNCHANGED <<fetchVars, ingestVars, auxVars>>

\* Mutation of PinnedKeyMismatch: the test is left out.
PinnedKeyMismatchNever(existingKey, publicKey) == FALSE

\* existingKey != "" && existingKey != req.PublicKey
PinnedKeyMismatch(existingKey, publicKey) ==
    existingKey # NoKey /\ existingKey # publicKey

\* GetPinnedPublicKey and the pinned-key test (lines 105-113).
EnrollGetKey(r) ==
    /\ enr[r].pc = "getKey"
    /\ \E existingKey \in GetPinnedPublicKey(enr[r].agent) :
          IF PinnedKeyMismatch(existingKey, enr[r].key)
          THEN Finish(r, "ForbiddenKey")
          ELSE enr' = [enr EXCEPT ![r].pc = "upsert", ![r].existingKey = existingKey]
    /\ UNCHANGED <<agents, creds, tokens, genCount, hist, nStarted>>
    /\ UNCHANGED <<fetchVars, ingestVars, auxVars>>

\* Storage.EnrollAgent: the agent upsert (line 115).
EnrollUpsert(r) ==
    /\ enr[r].pc = "upsert"
    /\ LET q == enr[r]
           in == EnrollAgentInput(tokens[q.tok].org, q.host, "fp", q.tok)
       IN agents' = [agents EXCEPT ![q.agent] = UpsertAgentRow(@, in)]
    /\ enr' = [enr EXCEPT ![r].pc = "increment"]
    /\ UNCHANGED <<creds, tokens, genCount, hist, nStarted>>
    /\ UNCHANGED <<fetchVars, ingestVars, auxVars>>

\* IncrementBootstrapTokenUsage (line 121).
EnrollIncrement(r) ==
    /\ enr[r].pc = "increment"
    /\ tokens' = [tokens EXCEPT ![enr[r].tok].useCount = @ + 1]
    /\ enr' = [enr EXCEPT ![r].pc = "credentials"]
    /\ UNCHANGED <<agents, creds, genCount, hist, nStarted>>
    /\ UNCHANGED <<fetchVars, ingestVars, auxVars>>

\* IssueAgentJWT, CreateAgentCredentials and the 201 response (lines 126-153).
EnrollCredentials(r) ==
    /\ enr[r].pc = "credentials"
    /\ LET q == enr[r]
           pinned == (q.existingKey = NoKey)
       IN IF CanInsertCredential(creds, q.agent, q.key, pinned)
          THEN /\ creds' = creds \cup {CredRow(q.agent, q.key, pinned)}
               /\ Finish(r, "Created")
               /\ hist' = [hist EXCEPT
                     !.succ[q.tok] = @ + 1,
                     !.firstKey[q.agent] = IF @ = NoKey THEN q.key ELSE @,
                     !.lastKey[q.agent] = q.key,
                     !.lastTok[q.agent] = q.tok]
          ELSE /\ Finish(r, "StoreCredentialsFailed")
               /\ UNCHANGED <<creds, hist>>
    /\ UNCHANGED <<agents, tokens, genCount, nStarted>>
    /\ UNCHANGED <<fetchVars, ingestVars, auxVars>>

\* The response has been written; the slot is free again.
Reply(r) ==
    /\ enr[r].pc = "done"
    /\ enr' = [enr EXCEPT ![r] = IdleReq]
    /\ UNCHANGED <<agents, creds, tokens, genCount, hist, nStarted>>
    /\ UNCHANGED <<fetchVars, ingestVars, auxVars>>

\* Handler.CreateAgent (console): a generated agent id and key pair, agent row
\* and pinned credential inserted in one transaction.
ConsoleCreateAgent(a) ==
    /\ genCount < MaxGen
    /\ genCount' = genCount + 1
    /\ LET k == ServerKey(genCount + 1)
           row == [NoAgentRow EXCEPT !.present = TRUE, !.status = "pending",
                                     !.tags = Tags({}), !.hostname = "h1"]
       IN IF ~agents[a].present
          THEN /\ agents' = [agents EXCEPT ![a] = row]
               /\ creds' = creds \cup {CredRow(a, k, TRUE)}
               /\ hist' = [hist EXCEPT !.firstKey[a] = IF @ = NoKey THEN k ELSE @]
          ELSE UNCHANGED <<agents, creds, hist>>
    /\ UNCHANGED <<tokens, enr, nStarted>>
    /\ UNCHANGED <<fetchVars, ingestVars, auxVars>>

\* Handler.RotateCredentials: revoke every active credential of the agent and
\* insert a fresh non-pinned one, in one transaction.
RotateCredentials(a) ==
    /\ genCount < MaxGen
    /\ genCount' = genCount + 1
    /\ LET k == ServerKey(genCount + 1)
           revoked == RevokeAllActive(creds, a)
       IN IF CanInsertCredential(revoked, a, k, FALSE)
          THEN /\ creds' = revoked \cup {CredRow(a, k, FALSE)}
               /\ hist' = [hist EXCEPT !.lastKey[a] = NoKey, !.lastTok[a] = ""]
          ELSE UNCHANGED <<creds, hist>>
    /\ UNCHANGED <<agents, tokens, enr, nStarted>>
    /\ UNCHANGED <<fetchVars, ingestVars, auxVars>>

\* The expiry time of a token that has one passes.
TokenExpires(t) ==
    /\ tokens[t].hasExpiry /\ ~tokens[t].expired
    /\ tokens' = [tokens EXCEPT ![t].expired = TRUE]
    /\ UNCHANGED <<agents, creds, genCount, enr, hist, nStarted>>
    /\ UNCHANGED <<fetchVars, ingestVars, auxVars>>

\* Storage.RevokeBootstrapToken.
RevokeBootstrapToken(t) ==
    /\ ~tokens[t].revoked
    /\ tokens' = [tokens EXCEPT ![t].revoked = TRUE]
    /\ UNCHANGED <<agents, creds, genCount, enr, hist, nStarted>>
    /\ UNCHANGED <<fetchVars, ingestVars, auxVars>>

InitEnroll ==
    /\ agents = InitAgents
    /\ creds = {}
    /\ tokens = InitTokens
    /\ genCount = 0
    /\ nStarted = 0
    /\ enr = [r \in Slots |-> IdleReq]
    /\ hist = InitHist

EnrollStep(r) ==
    \/ EnrollGetAgent(r)
    \/ EnrollGetKey(r)
    \/ EnrollUpsert(r)
    \/ EnrollIncrement(r)
    \/ EnrollCredentials(r)
    \/ Reply(r)

\* Handlers run one after another.
NextEnrollSeq ==
    \/ \E r \in Slots : EnrollStep(r)
    \/ AllIdle /\ Begin(1, AgentIds, DefectSets, TRUE)
    \/ AllIdle /\ \E a \in AgentIds : ConsoleCreateAgent(a)
    \/ AllIdle /\ \E a \in AgentIds : RotateCredentials(a)
    \/ AllIdle /\ \E t \in TokenIds : RevokeBootstrapToken(t)
    \/ AllIdle /\ \E t \in TokenIds : TokenExpires(t)

\* Handlers run concurrently and interleave between database calls.
\* The races are the ones among handlers working on one agent id; a malformed
\* request makes no database call and is represented by one case.
RaceAgents == {"a1"}

NextEnroll ==
    \/ \E r \in Slots : Begin(r, RaceAgents, {Defects}, FALSE) \/ EnrollStep(r)
    \/ \E a \in RaceAgents : ConsoleCreateAgent(a) \/ RotateCredentials(a)

\* Handlers run concurrently on any of the agent ids, next to rotations.
NextEnrollRace ==
    \/ \E r \in Slots : Begin(r, AgentIds, {Defects}, FALSE) \/ EnrollStep(r)
    \/ \E a \in RaceAgents : RotateCredentials(a)

\* ------------------------------------------------------------------------
\* JetStream consumers: handling of the fetched messages
\* ------------------------------------------------------------------------
\* Messages published to the two streams in a run.
MaxMsgs == 2
\* nats.MaxDeliver(3)
MaxDeliver == 3
\* Storage calls of the consumers that fail in a run for reasons outside the
\* model (connection loss, timeouts).
MaxFail == 1

\* The agents that publish.
IngestAgents == {"a1"}

\* Wire payloads. ok: msgpack.Unmarshal into the struct succeeds; known: the
\* fields the struct declares; extra: a field it does not declare.
BadPayload == [ok |-> FALSE, agent |-> "", known |-> "", extra |-> 0]
EventPayloads ==
    {BadPayload} \cup
    {[ok |-> TRUE, agent |-> a, known |-> "alert", extra |-> 0] : a \in IngestAgents}
InventoryPayloads ==
    {BadPayload} \cup
    {[ok |-> TRUE, agent |-> "", known |-> "inv1", extra |-> x] : x \in {0, 1}} \cup
    {[ok |-> TRUE, agent |-> "", known |-> "inv2", extra |-> 0]}
Payloads(c) == IF c = "events" THEN EventPayloads ELSE InventoryPayloads

\* Subjects the consumers' filters ops.*.events.> and ops.*.inventory admit.
Subject(c, a) ==
    IF c = "events" THEN <<"ops", a, "events", "alert">> ELSE <<"ops", a, "inventory">>

\* msgpack.Unmarshal: fails on bytes that are no encoding of the struct, and
\* otherwise keeps the declared fields only.
Unmarshal(data) == [ok |-> data.ok, agent |-> data.agent, known |-> data.known]

\* json.Marshal(inv) and hex(sha256(payload)).
MarshalJSON(inv) == <<"json", inv.known>>
Sha256Hex(payload) == <<"sha256", payload>>

agentIDFromSubject(subject) ==
    IF Len(subject) # 3 THEN [ok |-> FALSE, id |-> ""]
    ELSE IF subject[1] # "ops" \/ subject[3] # "inventory" THEN [ok |-> FALSE, id |-> ""]
    ELSE [ok |-> TRUE, id |-> subject[2]]

\* The agent the events consumer registers for an event of an unknown agent.
EventAgentInput ==
    [org |-> "", name |-> "", hostname |-> "unknown", status |-> "online",
     tags |-> NilTags, fp |-> "", via |-> ""]

\* incidents.agent_id and agents_inventory.agent_id REFERENCES agents(agent_id).
AgentExists(a) == a \in AgentIds /\ agents[a].present

\* The unique index on agents_inventory (agent_id, hash) has a row for the key.
SnapshotKeyTaken(rows, a, h) == \E r \in rows : r.agent = a /\ r.hash = h

\* Mutation of InsertInventorySnapshot: a plain INSERT.
InsertInventorySnapshotNoConflictClause(rows, a, h, from) ==
    rows \cup {[agent |-> a, hash |-> h, from |-> from]}

\* INSERT ... ON CONFLICT (agent_id, hash) DO NOTHING. from identifies the
\* row (the serial id): the message that inserted it.
InsertInventorySnapshot(rows, a, h, from) ==
    IF SnapshotKeyTaken(rows, a, h) THEN rows
    ELSE rows \cup {[agent |-> a, hash |-> h, from |-> from]}

\* Mutation of ServerEffect: a nak always schedules another delivery.
ServerEffectNoMaxDeliver(m, k) ==
    IF k = "ack" THEN "acked" ELSE IF k = "term" THEN "termed" ELSE "pending"

\* What the server does with a message on an acknowledgement of kind k.
ServerEffect(m, k) ==
    IF k = "ack" THEN "acked"
    ELSE IF k = "term" THEN "termed"
    ELSE IF m.delivered >= MaxDeliver THEN "dead" ELSE "pending"

\* Mutation of DecodeFailureCall: the undecodable message is nak'd.
DecodeFailureCallNak == "nak"

\* The acknowledgement processMessage sends for an undecodable payload.
DecodeFailureCall == "term"

\* Mutation of AfterProcess: the loop acks whatever processMessage returned.
AfterProcessAlwaysAck(failed) == "ack"

\* if err := c.processMessage(msg); err != nil { NakWithDelay } else { Ack }
AfterProcess(failed) == IF failed THEN "nak" ELSE "ack"

RECURSIVE InOrder(_)
InOrder(S) ==
    IF S = {} THEN <<>>
    ELSE LET m == CHOOSE x \in S : \A y \in S : x <= y
         IN <<m>> \o InOrder(S \ {m})

Cur(c) == Head(con[c].batch)
CurMsg(c) == stream[c][Cur(c)]
Available(c) == {i \in DOMAIN stream[c] : stream[c][i].st = "pending"}

\* msg.Ack / msg.Term / msg.NakWithDelay on the current message: the client
\* sends the first of them and answers ErrMsgAlreadyAckd to a later one.
AckReply(c, k) ==
    stream' = [stream EXCEPT ![c][Cur(c)] =
                  [@ EXCEPT !.calls = Append(@, k),
                            !.st = IF con[c].ackd THEN @ ELSE ServerEffect(CurMsg(c), k)]]

GoTo(c, pc) == con' = [con EXCEPT ![c].pc = pc]

\* The outcomes of a storage call: TRUE when the database carries it out.
DbOutcome(dbOk) ==
    /\ dbOk \in BOOLEAN
    /\ ~dbOk => dbFails < MaxFail
    /\ dbFails' = IF dbOk THEN dbFails ELSE dbFails + 1

\* An agent publishes a message. One published while the loop handles a batch
\* reaches the loop at its next Fetch, as one published just before that Fetch
\* does, so publishing is placed there.
Publish(c) ==
    /\ Len(stream["events"]) + Len(stream["inventory"]) < MaxMsgs
    /\ con[c].pc = "fetch"
    /\ \E a \in IngestAgents, d \in Payloads(c) :
          /\ (c = "events" /\ d.ok) => d.agent = a
          /\ stream' = [stream EXCEPT ![c] =
                Append(@, [subject |-> Subject(c, a), data |-> d, st |-> "pending",
                           delivered |-> 0, calls |-> <<>>])]
    /\ UNCHANGED <<con, incidents, snapshots, dbFails>>
    /\ UNCHANGED <<fetchVars, enrollVars, auxVars>>

\* Fetch returns messages (fewer than fetchSize): lines 62 and 92-105.
Deliver(c) ==
    /\ con[c].pc = "fetch"
    /\ \E B \in SUBSET Available(c) :
          /\ B # {}
          /\ Cardinality(B) < fetchSize[c]
          /\ stream' = [stream EXCEPT ![c] =
                [i \in DOMAIN @ |->
                    IF i \in B
                    THEN [@[i] EXCEPT !.st = "inflight", !.delivered = @ + 1]
                    ELSE @[i]]]
          /\ con' = [con EXCEPT ![c] =
                [pc |-> "process", batch |-> InOrder(B), ackd |-> FALSE]]
          /\ SetCtl(c, AdaptFetch(Ctl(c), c, Cardinality(B), FALSE))
    /\ UNCHANGED <<incidents, snapshots, dbFails>>
    /\ UNCHANGED <<enrollVars, auxVars>>

\* processMessage: msgpack.Unmarshal, and Term on failure.
ProcDecode(c) ==
    /\ con[c].pc = "process"
    /\ IF ~Unmarshal(CurMsg(c).data).ok
       THEN /\ AckReply(c, DecodeFailureCall)
            /\ con' = [con EXCEPT ![c].pc = AfterProcess(FALSE), ![c].ackd = TRUE]
       ELSE /\ GoTo(c, IF c = "events" THEN "getAgent" ELSE "insert")
            /\ UNCHANGED stream
    /\ UNCHANGED <<incidents, snapshots, dbFails>>
    /\ UNCHANGED <<fetchVars, enrollVars, auxVars>>

\* The event's agent id, from the payload.
EventAgent(c) == Unmarshal(CurMsg(c).data).agent

\* storage.GetAgentByAgentID (events, line 128); dbOk: the query succeeds.
EvGetAgent(c) ==
    /\ c = "events" /\ con[c].pc = "getAgent"
    /\ \E dbOk \in BOOLEAN :
          /\ DbOutcome(dbOk)
          /\ GoTo(c, IF ~dbOk THEN AfterProcess(TRUE)
                     ELSE IF AgentExists(EventAgent(c)) THEN "createIncident"
                     ELSE "createAgent")
    /\ UNCHANGED <<stream, incidents, snapshots>>
    /\ UNCHANGED <<fetchVars, enrollVars, auxVars>>

\* storage.CreateAgent for an agent the lookup did not find (lines 132-142).
EvCreateAgent(c) ==
    /\ c = "events" /\ con[c].pc = "createAgent"
    /\ \E dbOk \in BOOLEAN :
          /\ DbOutcome(dbOk)
          /\ IF dbOk
             THEN /\ agents' = [agents EXCEPT ![EventAgent(c)] =
                                   UpsertAgentRow(@, EventAgentInput)]
                  /\ GoTo(c, "createIncident")
             ELSE /\ GoTo(c, AfterProcess(TRUE))
                  /\ UNCHANGED agents
    /\ UNCHANGED <<stream, incidents, snapshots>>
    /\ UNCHANGED <<creds, tokens, genCount, enr, nStarted, hist>>
    /\ UNCHANGED <<fetchVars, auxVars>>

\* storage.CreateIncident (line 164).
EvCreateIncident(c) ==
    /\ c = "events" /\ con[c].pc = "createIncident"
    /\ \E dbOk \in BOOLEAN :
          /\ DbOutcome(dbOk)
          /\ IF dbOk /\ AgentExists(EventAgent(c))
             THEN /\ incidents' = incidents \cup
                         {[agent |-> EventAgent(c),
                           type  |-> Unmarshal(CurMsg(c).data).known,
                           from  |-> Cur(c)]}
                  /\ GoTo(c, AfterProcess(FALSE))
             ELSE /\ GoTo(c, AfterProcess(TRUE))
                  /\ UNCHANGED incidents
    /\ UNCHANGED <<stream, snapshots>>
    /\ UNCHANGED <<fetchVars, enrollVars, auxVars>>

\* Inventory: json.Marshal, agentIDFromSubject, sha256 and
\* storage.InsertInventorySnapshot (lines 128-143).
InvInsert(c) ==
    /\ c = "inventory" /\ con[c].pc = "insert"
    /\ LET inv     == Unmarshal(CurMsg(c).data)
           payload == MarshalJSON(inv)
           agentID == agentIDFromSubject(CurMsg(c).subject)
           hash    == Sha256Hex(payload)
       IN \E dbOk \in BOOLEAN :
            /\ DbOutcome(dbOk)
            /\ IF agentID.ok /\ dbOk /\ AgentExists(agentID.id)
               THEN /\ snapshots' = InsertInventorySnapshot(snapshots, agentID.id,
                                                            hash, Cur(c))
                    /\ GoTo(c, AfterProcess(FALSE))
               ELSE /\ GoTo(c, AfterProcess(TRUE))
                    /\ UNCHANGED snapshots
    /\ UNCHANGED <<stream, incidents>>
    /\ UNCHANGED <<fetchVars, enrollVars, auxVars>>

\* Mutation of NextMsg: the loop has no case <-ctx.Done().
NextMsgNoCtxCheck(c) ==
    con' = [con EXCEPT ![c] =
              [pc    |-> IF Tail(@.batch) = <<>> THEN "fetch" ELSE "process",
               batch |-> Tail(@.batch),
               ackd  |-> FALSE]]

\* The loop goes on to the next message of the batch; after the last one it
\* is at the top of the for: select { case <-ctx.Done(): return; default: }
\* and then the next Fetch.
NextMsg(c) ==
    con' = [con EXCEPT ![c] =
              [pc    |-> IF Tail(@.batch) # <<>> THEN "process"
                         ELSE IF ctxDone THEN "done" ELSE "fetch",
               batch |-> Tail(@.batch),
               ackd  |-> FALSE]]

\* msg.Ack() (line 113)
MsgAck(c) ==
    /\ con[c].pc = "ack"
    /\ AckReply(c, "ack")
    /\ NextMsg(c)
    /\ UNCHANGED <<incidents, snapshots, dbFails>>
    /\ UNCHANGED <<fetchVars, enrollVars, auxVars>>

\* msg.NakWithDelay(5 * time.Second) (line 110)
MsgNak(c) ==
    /\ con[c].pc = "nak"
    /\ AckReply(c, "nak")
    /\ NextMsg(c)
    /\ UNCHANGED <<incidents, snapshots, dbFails>>
    /\ UNCHANGED <<fetchVars, enrollVars, auxVars>>

InitIngest ==
    /\ stream = [c \in Consumers |-> <<>>]
    /\ con = [c \in Consumers |-> [pc |-> "fetch", batch |-> <<>>, ackd |-> FALSE]]
    /\ incidents = {}
    /\ snapshots = {}
    /\ dbFails = 0

\* The consumers run next to the console, where agents are registered under
\* ids that are not in use.
NextIngest ==
    \/ \E a \in IngestAgents : ~agents[a].present /\ ConsoleCreateAgent(a)
    \/ \E c \in Consumers :
        \/ Publish(c)
        \/ Deliver(c)
        \/ ProcDecode(c)
        \/ EvGetAgent(c)
        \/ EvCreateAgent(c)
        \/ EvCreateIncident(c)
        \/ InvInsert(c)
        \/ MsgAck(c)
        \/ MsgNak(c)

\* A Fetch that was waiting when the context was cancelled returns without
\* messages (nats.MaxWait(5 s), or the error of the drained subscription);
\* the loop adapts fetchSize, continues, and returns at the select.
ConsumerExit(c) ==
    /\ ctxDone /\ con[c].pc = "fetch"
    /\ GoTo(c, "done")
    /\ SetCtl(c, AdaptFetch(Ctl(c), c, 0, TRUE))
    /\ UNCHANGED <<stream, incidents, snapshots, dbFails>>
    /\ UNCHANGED <<enrollVars, auxVars>>

\* One step of consumer c's loop on the batch in hand, or its return.
LoopStep(c) ==
    \/ ProcDecode(c) \/ EvGetAgent(c) \/ EvCreateAgent(c) \/ EvCreateIncident(c)
    \/ InvInsert(c) \/ MsgAck(c) \/ MsgNak(c) \/ ConsumerExit(c)

\* ------------------------------------------------------------------------
\* rpc.Client.ExecAction and the HTTP mapping of its errors
\* ------------------------------------------------------------------------
\* Calls made in a run.
MaxCalls == 2

\* Requested timeouts, in milliseconds.
TimeoutInputs ==
    {-1000, -1, 0, 1, 1000, 9999, 10000, 10001, 60000, 119999, 120000, 120001,
     500000, 2000000000}

\* The wait deadline in milliseconds (lines 477-483).
RequestTimeout(timeoutMS) ==
    LET t0 == timeoutMS + 5000
        t1 == IF timeoutMS <= 0 THEN 15000 ELSE t0
    IN IF t1 > 125000 THEN 125000 ELSE t1

\* Mutation of RpcError: a request nobody listens to is reported as timed out.
RpcErrorOfflineAsTimeout(busErr) ==
    IF busErr \in {"ErrNoResponders", "ErrTimeout"} THEN "Timeout"
    ELSE IF busErr = "" THEN "" ELSE "Other"

\* The error ExecAction returns for the error of nc.Request (lines 487-495).
RpcError(busErr) ==
    IF busErr = "ErrNoResponders" THEN "AgentOffline"
    ELSE IF busErr = "ErrTimeout" THEN "Timeout"
    ELSE IF busErr = "" THEN ""
    ELSE "Other"

httpErrorFromRPC(err) ==
    IF err = "AgentOffline" THEN 404
    ELSE IF err = "Timeout" THEN 504
    ELSE 500

IdleCall ==
    [pc |-> "idle", agent |-> "", timeoutMS |-> 0, timeout |-> 0, heard |-> FALSE,
     busErr |-> "", err |-> "", status |-> 0, n |-> 0]

\* ExecAction up to nc.Request: the request is published with its deadline.
\* The server answers at once when the subject has no subscriber.
RpcRequest(a, timeoutMS) ==
    /\ rpc.pc = "idle" /\ rpc.n < MaxCalls
    /\ rpc' = [pc |-> IF a \in subs THEN "waiting" ELSE "failed",
               agent |-> a, timeoutMS |-> timeoutMS,
               timeout |-> RequestTimeout(timeoutMS),
               heard |-> a \in subs,
               busErr |-> IF a \in subs THEN "" ELSE "ErrNoResponders",
               err |-> "", status |-> 0, n |-> rpc.n + 1]
    /\ UNCHANGED subs
    /\ UNCHANGED <<fetchVars, enrollVars, ingestVars, presVars, conflictVars, fetched, lastCall, lateVars>>

\* nc.Request returns an error: the deadline passed, or the connection failed.
RpcFail(e) ==
    /\ rpc.pc = "waiting"
    /\ rpc' = [rpc EXCEPT !.pc = "failed", !.busErr = e]
    /\ UNCHANGED subs
    /\ UNCHANGED <<fetchVars, enrollVars, ingestVars, presVars, conflictVars, fetched, lastCall, lateVars>>

\* The agent's reply arrives; decodes: msgpack.Unmarshal succeeds (line 498).
RpcReply(decodes) ==
    /\ rpc.pc = "waiting" /\ rpc.agent \in subs
    /\ rpc' = [rpc EXCEPT !.pc = "done",
                          !.err = IF decodes THEN "" ELSE "Other",
                          !.status = IF decodes THEN 200 ELSE httpErrorFromRPC("Other")]
    /\ UNCHANGED subs
    /\ UNCHANGED <<fetchVars, enrollVars, ingestVars, presVars, conflictVars, fetched, lastCall, lateVars>>

\* ExecAction returns the error and the handler writes the response.
RpcReturnError ==
    /\ rpc.pc = "failed"
    /\ rpc' = [rpc EXCEPT !.pc = "done", !.err = RpcError(rpc.busErr),
                          !.status = httpErrorFromRPC(RpcError(rpc.busErr))]
    /\ UNCHANGED subs
    /\ UNCHANGED <<fetchVars, enrollVars, ingestVars, presVars, conflictVars, fetched, lastCall, lateVars>>

\* The HTTP request is over.
RpcEnd ==
    /\ rpc.pc = "done"
    /\ rpc' = [IdleCall EXCEPT !.n = rpc.n]
    /\ UNCHANGED subs
    /\ UNCHANGED <<fetchVars, enrollVars, ingestVars, presVars, conflictVars, fetched, lastCall, lateVars>>

\* An agent connects and subscribes, or goes away.
AgentSubscribe(a) ==
    /\ a \notin subs
    /\ subs' = subs \cup {a}
    /\ UNCHANGED rpc
    /\ UNCHANGED <<fetchVars, enrollVars, ingestVars, presVars, conflictVars, fetched, lastCall, lateVars>>

AgentUnsubscribe(a) ==
    /\ a \in subs
    /\ subs' = subs \ {a}
    /\ UNCHANGED rpc
    /\ UNCHANGED <<fetchVars, enrollVars, ingestVars, presVars, conflictVars, fetched, lastCall, lateVars>>

InitRpc ==
    /\ rpc = IdleCall
    /\ subs = {}

NextRpc ==
    \/ \E a \in AgentIds, t \in TimeoutInputs : RpcRequest(a, t)
    \/ \E e \in {"ErrTimeout", "ErrConnectionClosed"} : RpcFail(e)
    \/ \E decodes \in BOOLEAN : RpcReply(decodes)
    \/ RpcReturnError
    \/ RpcEnd
    \/ \E a \in AgentIds : AgentSubscribe(a) \/ AgentUnsubscribe(a)

\* ------------------------------------------------------------------------
\* Presence: the KV watcher, the cache's last_seen keys and the two workers
\* that force agents offline.
\* Times are in seconds (the code stores milliseconds; every value it stores
\* is a reading of the same clock, converted exactly in both directions).

PresenceAgents == {"a1"}
\* The agents that can have a row in table agents.
ListedAgents == {"a1", "a2"}
\* No row of table agents with that agent id.
NoRow == [status |-> "", lastSeenAt |-> -1]
\* The clock advances in steps of ClockStep up to MaxNow, where it stops.
ClockStep == 30
MaxNow == 300
\* KV entries (heartbeats, deletes) the watcher handles per agent.
MaxBeats == 2
\* Expired-event messages of other keys waiting in the channel.
MaxPending == 1

TTLSeconds == 150
FallbackSeconds == 120
TickerSeconds == 60

NotFound == -1
\* A key that does not exist.
NoEntry == [ts |-> NotFound, exp |-> NotFound]
lastSeenPrefix == "ops:agent:last_seen:"
\* Mutation of SetLastSeen: an existing key keeps its expiry time.
SetLastSeenKeepsExpiry(a, ts, ttl) ==
    [lastSeen EXCEPT ![a] = [ts |-> ts, exp |-> IF @ = NoEntry THEN clock + ttl ELSE @.exp]]
\* RedisCache.SetLastSeen: SET key tsMs EX ttlSeconds.
SetLastSeen(a, ts, ttl) == [lastSeen EXCEPT ![a] = [ts |-> ts, exp |-> clock + ttl]]
\* RedisCache.GetLastSeen: the stored value, or an error (redis.Nil) when the
\* key does not exist.
GetLastSeen(a) == lastSeen[a].ts

\* Storage.MarkAgentOffline(agentID, lastSeenAt): status = offline and
\* last_seen_at = lastSeenAt.
MarkAgentOffline(a, lastSeenAt) ==
    [agentRows EXCEPT ![a] = [status |-> "offline", lastSeenAt |-> lastSeenAt]]

HasLastSeenPrefixNever(key) == FALSE
HasLastSeenPrefix(key) == key.prefix = lastSeenPrefix

\* handleExpired: the time it hands to MarkAgentOffline.
ExpiredLastSeenAt(a) ==
    IF GetLastSeen(a) = NotFound THEN clock - FallbackSeconds ELSE GetLastSeen(a)

\* main: the fallback reconciler is started when the keyevent worker is not.
FallbackStartedAlways(keyEventsActive) == TRUE
FallbackStarted(keyEventsActive) == ~keyEventsActive

\* main starts the workers.  notify is the cache server's setting
\* notify-keyspace-events (Ex or nothing); subscribed is whether SUBSCRIBE to
\* the expired channel was confirmed within 2 s.  The server confirms a
\* SUBSCRIBE whatever its notify-keyspace-events setting is.
StartWorkers(notify, subscribed) ==
    /\ recon.pc = "boot"
    /\ recon' = [pc |-> "running", notify |-> notify,
                 keyevent |-> subscribed,
                 fallback |-> FallbackStarted(subscribed),
                 nextTick |-> clock + TickerSeconds]
    /\ UNCHANGED <<clock, lastSeen, cstatus, agentRows, expq, beats>>
    /\ UNCHANGED <<fetchVars, enrollVars, ingestVars, rpcVars, conflictVars, fetched, lastCall, lateVars>>

Tick ==
    /\ clock < MaxNow
    /\ clock' = IF clock + ClockStep < MaxNow THEN clock + ClockStep ELSE MaxNow
    /\ UNCHANGED <<lastSeen, cstatus, agentRows, expq, recon, beats>>
    /\ UNCHANGED <<fetchVars, enrollVars, ingestVars, rpcVars, conflictVars, fetched, lastCall, lateVars>>

\* watchLoop after handleEntry has returned: back to the select.  failed:
\* the handling met a decode, cache or storage error.  errs and after are
\* history: an error has occurred, and an update was handled without error
\* after it.
HandledStopsOnError(failed) ==
    [pc |-> IF failed THEN "done" ELSE "select", errs |-> watch.errs \/ failed,
     after |-> watch.after \/ (watch.errs /\ ~failed)]
Handled(failed) ==
    [pc |-> "select", errs |-> watch.errs \/ failed,
     after |-> watch.after \/ (watch.errs /\ ~failed)]

\* The cache calls of handleEntry on a KeyValuePut.  decodes: msgpack.Unmarshal
\* succeeds; cacheOk: SetLastSeen succeeds; statusOk: GetStatus and SetStatus
\* succeed.  Heartbeats arrive while their TTL still ends before the clock
\* stops.
PutCache(a, decodes, cacheOk, statusOk) ==
    /\ recon.pc = "running"
    /\ watch.pc = "select"
    /\ beats[a].n < MaxBeats
    /\ clock + TTLSeconds <= MaxNow
    /\ watch' = Handled(~decodes \/ ~cacheOk \/ ~statusOk)
    /\ IF decodes /\ cacheOk
       THEN /\ lastSeen' = SetLastSeen(a, clock, TTLSeconds)
            /\ cstatus' = IF statusOk /\ cstatus[a] = "offline"
                          THEN [cstatus EXCEPT ![a] = "online"] ELSE cstatus
            /\ beats' = [beats EXCEPT ![a] = [n |-> @.n + 1, ts |-> clock]]
       ELSE /\ beats' = [beats EXCEPT ![a].n = @ + 1]
            /\ UNCHANGED <<lastSeen, cstatus>>

\* Mutation of Heartbeat: the Put also sets the agent row online.
HeartbeatWritesRow(a, decodes, cacheOk, statusOk) ==
    /\ PutCache(a, decodes, cacheOk, statusOk)
    /\ agentRows' = [agentRows EXCEPT ![a].status = "online"]
    /\ UNCHANGED <<clock, expq, recon>>
    /\ UNCHANGED <<fetchVars, enrollVars, ingestVars, rpcVars, conflictVars, fetched, lastCall, ctxDone, hl>>

\* KVWatcher.handleEntry, KeyValuePut.
Heartbeat(a, decodes, cacheOk, statusOk) ==
    /\ PutCache(a, decodes, cacheOk, statusOk)
    /\ UNCHANGED <<clock, agentRows, expq, recon>>
    /\ UNCHANGED <<fetchVars, enrollVars, ingestVars, rpcVars, conflictVars, fetched, lastCall, ctxDone, hl>>

\* KVWatcher.handleEntry, KeyValueDelete: Storage.UpdateAgentStatus sets
\* status = offline and last_seen_at = NOW().
KVDelete(a, dbOk) ==
    /\ recon.pc = "running"
    /\ watch.pc = "select"
    /\ watch' = Handled(~dbOk)
    /\ beats[a].n < MaxBeats
    /\ beats' = [beats EXCEPT ![a].n = @ + 1]
    /\ agentRows' = IF dbOk
                    THEN [agentRows EXCEPT
                            ![a] = [status |-> "offline", lastSeenAt |-> clock]]
                    ELSE agentRows
    /\ UNCHANGED <<clock, lastSeen, cstatus, expq, recon>>
    /\ UNCHANGED <<fetchVars, enrollVars, ingestVars, rpcVars, conflictVars, fetched, lastCall, ctxDone, hl>>

\* Mutation of KVPurge: a purge is handled like a delete.
KVPurgeAsDelete(a) == KVDelete(a, TRUE)

\* KVWatcher.handleEntry, KeyValuePurge: a log line.
KVPurge(a) ==
    /\ recon.pc = "running"
    /\ watch.pc = "select"
    /\ watch' = Handled(FALSE)
    /\ beats[a].n < MaxBeats
    /\ beats' = [beats EXCEPT ![a].n = @ + 1]
    /\ UNCHANGED <<clock, lastSeen, cstatus, agentRows, expq, recon>>
    /\ UNCHANGED <<fetchVars, enrollVars, ingestVars, rpcVars, conflictVars, fetched, lastCall, ctxDone, hl>>

\* main: a signal arrives and cancel() is called.
Cancel ==
    /\ ~ctxDone
    /\ ctxDone' = TRUE
    /\ UNCHANGED <<fetchVars, enrollVars, ingestVars, rpcVars, presVars, conflictVars,
                   fetched, lastCall, watch, hl>>

\* watchLoop: the select takes case <-ctx.Done() and the loop returns.
WatchExit ==
    /\ ctxDone /\ watch.pc = "select"
    /\ watch' = [watch EXCEPT !.pc = "done"]
    /\ UNCHANGED <<fetchVars, enrollVars, ingestVars, rpcVars, presVars, conflictVars,
                   fetched, lastCall, ctxDone, hl>>

\* The cache server deletes a last_seen key whose TTL has run out and, when
\* notify-keyspace-events has Ex, publishes the key name on the expired
\* channel; delivered says whether the message reaches the subscription.
Expire(a, delivered) ==
    /\ lastSeen[a] # NoEntry
    /\ clock >= lastSeen[a].exp
    /\ lastSeen' = [lastSeen EXCEPT ![a] = NoEntry]
    /\ expq' = IF recon.notify /\ recon.keyevent /\ delivered
               THEN Append(expq, [prefix |-> lastSeenPrefix, id |-> a]) ELSE expq
    /\ UNCHANGED <<clock, cstatus, agentRows, recon, beats>>
    /\ UNCHANGED <<fetchVars, enrollVars, ingestVars, rpcVars, conflictVars, fetched, lastCall, lateVars>>

\* A key of the login rate limiter, which also carries a TTL, expires.
ExpireOther ==
    /\ recon.pc = "running" /\ recon.notify /\ recon.keyevent
    /\ Len(SelectSeq(expq, LAMBDA k : k.prefix = "rl:login:")) < MaxPending
    /\ expq' = Append(expq, [prefix |-> "rl:login:", id |-> "ip"])
    /\ UNCHANGED <<clock, lastSeen, cstatus, agentRows, recon, beats>>
    /\ UNCHANGED <<fetchVars, enrollVars, ingestVars, rpcVars, conflictVars, fetched, lastCall, lateVars>>

\* Mutation of HandleExpired: the cached status is written before, and
\* whatever the outcome of, the row update.
HandleExpiredCacheFirst(dbOk, cacheOk) ==
    /\ recon.keyevent
    /\ expq # <<>>
    /\ expq' = Tail(expq)
    /\ LET key == Head(expq)
           a == key.id
       IN IF ~HasLastSeenPrefix(key)
          THEN UNCHANGED <<agentRows, cstatus>>
          ELSE /\ cstatus' = IF cacheOk
                             THEN [cstatus EXCEPT ![a] = "offline"] ELSE cstatus
               /\ agentRows' = IF dbOk THEN MarkAgentOffline(a, ExpiredLastSeenAt(a))
                                ELSE agentRows
    /\ UNCHANGED <<clock, lastSeen, recon, beats>>
    /\ UNCHANGED <<fetchVars, enrollVars, ingestVars, rpcVars, conflictVars, fetched, lastCall, lateVars>>

\* The keyevent worker takes one message from the channel: handleExpired.
HandleExpired(dbOk, cacheOk) ==
    /\ recon.keyevent
    /\ expq # <<>>
    /\ expq' = Tail(expq)
    /\ LET key == Head(expq)
           a == key.id
       IN IF ~HasLastSeenPrefix(key)
          THEN UNCHANGED <<agentRows, cstatus>>
          ELSE IF ~dbOk
          THEN UNCHANGED <<agentRows, cstatus>>
          ELSE /\ agentRows' = MarkAgentOffline(a, ExpiredLastSeenAt(a))
               /\ cstatus' = IF cacheOk
                             THEN [cstatus EXCEPT ![a] = "offline"] ELSE cstatus
    /\ UNCHANGED <<clock, lastSeen, recon, beats>>
    /\ UNCHANGED <<fetchVars, enrollVars, ingestVars, rpcVars, conflictVars, fetched, lastCall, lateVars>>

\* Storage.ListAgentIDs: the agent ids of the rows of table agents.
ListAgentIDs == {a \in DOMAIN agentRows : agentRows[a] # NoRow}

\* Mutation of ReconcileAgent: every lookup error counts as a missing key.
ReconcileAgentAnyError(a, cacheErr, dbFail) ==
    IF (a \in cacheErr \/ GetLastSeen(a) = NotFound) /\ a \notin dbFail
    THEN MarkAgentOffline(a, clock - FallbackSeconds)[a]
    ELSE agentRows[a]

\* reconcileOnce, one agent of the list: the row after the pass.  cacheErr:
\* the agents whose GetLastSeen fails with an error other than redis.Nil;
\* dbFail: the agents whose MarkAgentOffline fails.
ReconcileAgent(a, cacheErr, dbFail) ==
    IF a \notin cacheErr /\ GetLastSeen(a) = NotFound /\ a \notin dbFail
    THEN MarkAgentOffline(a, clock - FallbackSeconds)[a]
    ELSE agentRows[a]

\* The ticker of the fallback reconciler fires (once the clock has stopped
\* at MaxNow it keeps firing) and reconcileOnce runs over the agents that
\* ListAgentIDs returns.
ReconcilePass(listOk, cacheErr, dbFail) ==
    /\ recon.fallback
    /\ clock >= recon.nextTick \/ clock = MaxNow
    /\ recon' = [recon EXCEPT !.nextTick = clock + TickerSeconds]
    /\ agentRows' =
          [a \in DOMAIN agentRows |->
              IF listOk /\ a \in ListAgentIDs
              THEN ReconcileAgent(a, cacheErr, dbFail) ELSE agentRows[a]]
    /\ UNCHANGED <<clock, lastSeen, cstatus, expq, beats>>
    /\ UNCHANGED <<fetchVars, enrollVars, ingestVars, rpcVars, conflictVars, fetched, lastCall, lateVars>>

\* A pass in which the cache answers every lookup and the row updates
\* succeed (dbOk) or fail.
FallbackTick(listOk, dbOk) ==
    ReconcilePass(listOk, {}, IF dbOk THEN {} ELSE ListedAgents)

\* Agent a2 is enrolled: its row is inserted with status online.
EnrollSecond ==
    /\ agentRows["a2"] = NoRow
    /\ agentRows' = [agentRows EXCEPT !["a2"] = [status |-> "online", lastSeenAt |-> clock]]
    /\ UNCHANGED <<clock, lastSeen, cstatus, expq, recon, beats>>
    /\ UNCHANGED <<fetchVars, enrollVars, ingestVars, rpcVars, conflictVars, fetched, lastCall, lateVars>>

\* Agent a1 is enrolled (status online, last_seen_at the enrollment time),
\* a2 is not yet, and main has not yet started the workers.
InitPresence ==
    /\ clock = 0
    /\ lastSeen = [a \in ListedAgents |-> NoEntry]
    /\ cstatus = [a \in ListedAgents |-> ""]
    /\ agentRows = [a \in ListedAgents |->
                      IF a \in PresenceAgents
                      THEN [status |-> "online", lastSeenAt |-> 0] ELSE NoRow]
    /\ expq = <<>>
    /\ recon = [pc |-> "boot", notify |-> FALSE, keyevent |-> FALSE,
                fallback |-> FALSE, nextTick |-> 0]
    /\ beats = [a \in ListedAgents |-> [n |-> 0, ts |-> NotFound]]

\* Outcomes: the results storage and cache calls and message delivery can
\* have ({TRUE} when they all succeed).
PresenceStep(Outcomes) ==
    \/ \E notify \in BOOLEAN, subscribed \in BOOLEAN : StartWorkers(notify, subscribed)
    \/ Tick
    \/ \E a \in PresenceAgents, decodes \in BOOLEAN, ok \in Outcomes,
          statusOk \in Outcomes : Heartbeat(a, decodes, ok, statusOk)
    \/ \E a \in PresenceAgents, ok \in Outcomes : KVDelete(a, ok)
    \/ \E a \in PresenceAgents : KVPurge(a)
    \/ \E a \in PresenceAgents, ok \in Outcomes : Expire(a, ok)
    \/ ExpireOther
    \/ \E dbOk \in Outcomes, cacheOk \in Outcomes : HandleExpired(dbOk, cacheOk)
    \/ \E listOk \in Outcomes, dbOk \in Outcomes : FallbackTick(listOk, dbOk)

NextPresence == PresenceStep(BOOLEAN)
\* The watcher with root cancellation.
NextWatch ==
    \/ \E notify \in BOOLEAN, subscribed \in BOOLEAN : StartWorkers(notify, subscribed)
    \/ Tick
    \/ \E a \in PresenceAgents, decodes \in BOOLEAN, ok \in BOOLEAN,
          statusOk \in BOOLEAN : Heartbeat(a, decodes, ok, statusOk)
    \/ \E a \in PresenceAgents, ok \in BOOLEAN : KVDelete(a, ok)
    \/ \E a \in PresenceAgents : KVPurge(a)
    \/ Cancel
    \/ WatchExit
\* The failures met in one pass: lookups that fail with a cache error, and
\* row updates that fail.
CacheErrs == {{}, {"a1"}}
DbFails == {{}, {"a1"}, {"a2"}}
\* The fallback reconciler with two agents, one of which sends heartbeats.
NextFallback ==
    \/ \E notify \in BOOLEAN : StartWorkers(notify, FALSE)
    \/ Tick
    \/ EnrollSecond
    \/ \E a \in PresenceAgents : Heartbeat(a, TRUE, TRUE, TRUE)
    \/ \E a \in PresenceAgents : Expire(a, TRUE)
    \/ \E listOk \in BOOLEAN, cacheErr \in CacheErrs, dbFail \in DbFails :
          ReconcilePass(listOk, cacheErr, dbFail)
\* Every storage and cache call succeeds and every expired event is delivered.
NextPresenceOk == PresenceStep({TRUE})

\* ------------------------------------------------------------------------
\* Conflict service and the event hub behind the SSE stream.

ConnAgents == {"a1"}
ConnIPs == {"10.0.0.1", "10.0.0.2"}
Orgs == {"o1", "o2"}
Subscribers == {"s1", "s2"}
\* OnAgentConnect calls in a run.
MaxConnects == 3
\* Events handed to Publish in a run.
MaxEvents == 11
\* Events waiting in the queue when Publish is called on its own.
MaxQueued == 2
\* Conflict rows present while resolve requests are made.
MaxConflicts == 1

QueueCap == 100
SubCap == 10

\* A Go string holding an address, as the caller passes it.
IPString(addr) == [addr |-> addr, suffix |-> ""]
\* remote_ip::text of an INET column: the address with its netmask length.
InetText(addr) == [addr |-> addr, suffix |-> "/32"]
\* A string bound to an INET column or parameter.
InetParse(str) == str.addr

NoConn == [RemoteIP |-> IPString("")]
OpenRows(a) == {i \in 1..Len(conns) : conns[i].agent = a /\ conns[i].open}

\* Storage.GetActiveConnection: the open row with the latest connected_at.
GetActiveConnection(a) ==
    IF OpenRows(a) = {} THEN NoConn
    ELSE LET i == CHOOSE i \in OpenRows(a) : \A j \in OpenRows(a) : j <= i
         IN [RemoteIP |-> InetText(conns[i].ip)]

\* run: select { case ch <- ev.conflict: default: }
TrySendUnbounded(buf, ev) == Append(buf, ev)
TrySend(buf, ev) == IF Len(buf) < SubCap THEN Append(buf, ev) ELSE buf

NoSub == [org |-> "", buf |-> <<>>]

\* conflictEventHub.Publish: send on the queue, which blocks while it is full.
Enqueue(org) ==
    [hub EXCEPT !.queue = Append(@, [org |-> org, n |-> hub.published + 1]),
                !.published = @ + 1]

\* ConflictService.OnAgentConnect.  The four Booleans are the outcomes of
\* GetActiveConnection, RecordAgentConflict, GetAgentByAgentID and
\* RecordAgentConnection.
OnAgentConnect(a, addr, getOk, recOk, agentOk, connOk) ==
    LET remoteIP == IPString(addr)
        existing == IF getOk THEN GetActiveConnection(a) ELSE NoConn
        conflict == existing # NoConn /\ existing.RemoteIP # remoteIP
        publish == conflict /\ agentOk
    IN /\ lastConnect.n < MaxConnects
       /\ ~publish \/ Len(hub.queue) < QueueCap
       /\ conflicts' =
             IF conflict /\ recOk
             THEN Append(conflicts,
                         [agent |-> a, existingIP |-> InetParse(existing.RemoteIP),
                          newIP |-> InetParse(remoteIP), resolution |-> "pending",
                          resolvedBy |-> "", resolvedAt |-> NotFound])
             ELSE conflicts
       \* GetAgentByAgentID(agentID).OrgID is o1 for every agent here.
       /\ hub' = IF publish THEN Enqueue("o1") ELSE hub
       /\ conns' = IF connOk
                   THEN Append(conns, [agent |-> a, ip |-> InetParse(remoteIP),
                                       open |-> TRUE])
                   ELSE conns
       /\ lastConnect' =
             [n |-> lastConnect.n + 1, agent |-> a, addr |-> addr,
              openIPs |-> {conns[i].ip : i \in OpenRows(a)},
              ok |-> getOk /\ recOk /\ agentOk /\ connOk,
              recorded |-> Len(conflicts') - Len(conflicts),
              published |-> hub'.published - hub.published]
       /\ UNCHANGED <<fetchVars, enrollVars, ingestVars, rpcVars, presVars, fetched, lastCall, lateVars>>

\* mapResolution: the stored value for a request value.
mapResolutionStoredNames(value) ==
    IF value \in {"keep_existing", "existing_wins"} THEN [res |-> "existing_wins", ok |-> TRUE]
    ELSE IF value \in {"keep_new", "new_wins"} THEN [res |-> "new_wins", ok |-> TRUE]
    ELSE IF value \in {"revoke_both", "both_disconnected"}
         THEN [res |-> "both_disconnected", ok |-> TRUE]
    ELSE [res |-> "", ok |-> FALSE]
mapResolution(value) ==
    CASE value = "keep_existing" -> [res |-> "existing_wins", ok |-> TRUE]
      [] value = "keep_new" -> [res |-> "new_wins", ok |-> TRUE]
      [] value = "revoke_both" -> [res |-> "both_disconnected", ok |-> TRUE]
      [] OTHER -> [res |-> "", ok |-> FALSE]

\* Users and their organizations; "" is a request without a user in its
\* context.  Every agent here belongs to o1.
Users == {"u1", "u2"}
UserOrg(u) == IF u = "u1" THEN "o1" ELSE "o2"
\* Request bodies: json.Decode fails, or yields the resolution field.
Bodies ==
    {[decodes |-> FALSE, resolution |-> ""]} \cup
    {[decodes |-> TRUE, resolution |-> r] :
        r \in {"keep_existing", "keep_new", "revoke_both", "existing_wins",
               "KEEP_NEW", ""}}

\* The HTTP status Handler.ResolveConflict answers with.  loadOk: GetUser,
\* GetConflict and GetAgentByAgentID return no error; dbOk: the UPDATE of
\* Storage.ResolveConflict returns no error.
ResolveStatus(user, id, body, loadOk, dbOk) ==
    IF user = "" THEN 401
    ELSE IF ~loadOk THEN 500
    ELSE IF id \notin 1..Len(conflicts) \/ UserOrg(user) # "o1" THEN 404
    ELSE IF ~body.decodes \/ ~mapResolution(body.resolution).ok THEN 400
    ELSE IF ~dbOk THEN 500
    ELSE 200

\* Handler.ResolveConflict for conflict id, with Storage.ResolveConflict:
\* UPDATE agent_conflicts SET resolution, resolved_by, resolved_at = NOW().
ResolveConflict(user, id, body, loadOk, dbOk) ==
    /\ conflicts' =
          IF ResolveStatus(user, id, body, loadOk, dbOk) = 200
          THEN [conflicts EXCEPT ![id] =
                   [@ EXCEPT !.resolution = mapResolution(body.resolution).res,
                             !.resolvedBy = user, !.resolvedAt = clock]]
          ELSE conflicts
    /\ UNCHANGED <<conns, hub, lastConnect>>
    /\ UNCHANGED <<fetchVars, enrollVars, ingestVars, rpcVars, presVars, fetched,
                   lastCall, lateVars>>

\* ConflictService.OnAgentDisconnect: Storage.RecordAgentDisconnect closes
\* every open row of the agent.
OnAgentDisconnect(a, ok) ==
    /\ OpenRows(a) # {}
    /\ conns' = IF ok
                THEN [i \in 1..Len(conns) |->
                        IF conns[i].agent = a THEN [conns[i] EXCEPT !.open = FALSE]
                        ELSE conns[i]]
                ELSE conns
    /\ UNCHANGED <<conflicts, hub, lastConnect>>
    /\ UNCHANGED <<fetchVars, enrollVars, ingestVars, rpcVars, presVars, fetched, lastCall, lateVars>>

\* PublishConflictEvent called on its own.
HubPublish(org) ==
    /\ hub.published < MaxEvents
    /\ Len(hub.queue) < MaxQueued
    /\ Len(hub.queue) < QueueCap
    /\ hub' = Enqueue(org)
    /\ UNCHANGED <<conns, conflicts, lastConnect>>
    /\ UNCHANGED <<fetchVars, enrollVars, ingestVars, rpcVars, presVars, fetched, lastCall, lateVars>>

\* Mutation of Receivers: every subscribed channel.
ReceiversOfAnyOrg(org) == {s \in Subscribers : hub.subs[s] # NoSub}
\* run: subs := h.subs[ev.orgID], the channels subscribed under the event's
\* organization.
Receivers(org) == {s \in Subscribers : hub.subs[s] # NoSub /\ hub.subs[s].org = org}

\* conflictEventHub.run: one iteration of the forwarder loop.
HubRun ==
    /\ hub.queue # <<>>
    /\ LET ev == Head(hub.queue)
       IN hub' = [hub EXCEPT
                    !.queue = Tail(@),
                    !.subs = [s \in Subscribers |->
                                IF s \in Receivers(ev.org)
                                THEN [hub.subs[s] EXCEPT !.buf = TrySend(@, ev)]
                                ELSE hub.subs[s]]]
    /\ UNCHANGED <<conns, conflicts, lastConnect>>
    /\ UNCHANGED <<fetchVars, enrollVars, ingestVars, rpcVars, presVars, fetched, lastCall, lateVars>>

\* EventStream: conflictHub.Subscribe(user.OrgID).  The user behind s1 belongs
\* to o1, the user behind s2 to either organization.
HubSubscribe(s, org) ==
    /\ hub.subs[s] = NoSub
    /\ hub' = [hub EXCEPT !.subs[s] = [org |-> org, buf |-> <<>>]]
    /\ UNCHANGED <<conns, conflicts, lastConnect>>
    /\ UNCHANGED <<fetchVars, enrollVars, ingestVars, rpcVars, presVars, fetched, lastCall, lateVars>>

\* EventStream returns: conflictHub.Unsubscribe removes and closes the channel.
HubUnsubscribe(s) ==
    /\ hub.subs[s] # NoSub
    /\ hub' = [hub EXCEPT !.subs[s] = NoSub]
    /\ UNCHANGED <<conns, conflicts, lastConnect>>
    /\ UNCHANGED <<fetchVars, enrollVars, ingestVars, rpcVars, presVars, fetched, lastCall, lateVars>>

\* EventStream: case conflict := <-sub, written to the response.
SubReceive(s) ==
    /\ hub.subs[s].buf # <<>>
    /\ hub' = [hub EXCEPT !.subs[s].buf = Tail(@)]
    /\ UNCHANGED <<conns, conflicts, lastConnect>>
    /\ UNCHANGED <<fetchVars, enrollVars, ingestVars, rpcVars, presVars, fetched, lastCall, lateVars>>

InitConflict ==
    /\ conns = <<>>
    /\ conflicts = <<>>
    /\ hub = [queue |-> <<>>, subs |-> [s \in Subscribers |-> NoSub],
              published |-> 0]
    /\ lastConnect = [n |-> 0, agent |-> "", addr |-> "", openIPs |-> {},
                      ok |-> TRUE, recorded |-> 0, published |-> 0]

NextConflict ==
    \/ \E a \in ConnAgents, addr \in ConnIPs,
          getOk \in BOOLEAN, recOk \in BOOLEAN, agentOk \in BOOLEAN, connOk \in BOOLEAN :
          OnAgentConnect(a, addr, getOk, recOk, agentOk, connOk)
    \/ \E a \in ConnAgents, ok \in BOOLEAN : OnAgentDisconnect(a, ok)
    \/ HubRun
    \/ \E s \in Subscribers : \E org \in (IF s = "s1" THEN {"o1"} ELSE Orgs) :
          HubSubscribe(s, org)
    \/ \E s \in Subscribers : HubUnsubscribe(s)
    \/ \E s \in Subscribers : SubReceive(s)

NextHub ==
    \/ \E org \in Orgs : HubPublish(org)
    \/ HubRun
    \/ \E s \in Subscribers : \E org \in (IF s = "s1" THEN {"o1"} ELSE Orgs) :
          HubSubscribe(s, org)
    \/ \E s \in Subscribers : HubUnsubscribe(s)
    \/ \E s \in Subscribers : SubReceive(s)

\* ------------------------------------------------------------------------
\* The event hub step by step: the RWMutex, the forwarder's loop body and the
\* two halves of Unsubscribe.

\* The channels EventStream requests create.
Chans == {"c1", "c2"}
\* Events published in a run of the step-by-step hub.
MaxLockEvents == 3

hubRest == <<fetchVars, enrollVars, ingestVars, rpcVars, presVars, conflictVars,
             fetched, lastCall, watch>>

\* mu: the RWMutex (w: write-locked, r: read-locked by the forwarder).
\* q: the organizations of the events in the queue.  fwd: the forwarder (pc,
\* the organization of the event in hand, the channels still to be sent to).
\* ch: per channel its state (new, subscribed: in the map, locked: its
\* Unsubscribe holds the write lock, removed: out of the map and not yet
\* closed, closed), organization and number of buffered events.
\* panic: a send on a closed channel has happened.  n: events published.
InitHubLock ==
    [mu |-> [w |-> FALSE, r |-> 0], q |-> <<>>,
     fwd |-> [pc |-> "recv", org |-> "", todo |-> {}],
     ch |-> [c \in Chans |-> [st |-> "new", org |-> "", n |-> 0]],
     panic |-> FALSE, n |-> 0]

\* Mutation of CanLock: Lock does not wait.
CanLockAnytime(mu) == TRUE
\* sync.RWMutex: Lock waits until no reader and no writer holds the mutex.
CanLock(mu) == ~mu.w /\ mu.r = 0
\* RLock waits while a writer holds the mutex.
CanRLock(mu) == ~mu.w

\* Publish: h.queue <- event.
LockPublish(org) ==
    /\ hl.n < MaxLockEvents /\ Len(hl.q) < QueueCap
    /\ hl' = [hl EXCEPT !.q = Append(@, org), !.n = @ + 1]
    /\ UNCHANGED <<hubRest, ctxDone>>

\* run: for ev := range h.queue.
FwdTake ==
    /\ hl.fwd.pc = "recv" /\ hl.q # <<>>
    /\ hl' = [hl EXCEPT !.q = Tail(@), !.fwd = [pc |-> "rlock", org |-> Head(hl.q), todo |-> {}]]
    /\ UNCHANGED <<hubRest, ctxDone>>

\* run: h.mu.RLock(); subs := h.subs[ev.orgID].
FwdRLock ==
    /\ hl.fwd.pc = "rlock" /\ CanRLock(hl.mu)
    /\ hl' = [hl EXCEPT !.mu.r = 1, !.fwd.pc = "send",
                        !.fwd.todo = {c \in Chans : hl.ch[c].st \in {"subscribed", "locked"}
                                                     /\ hl.ch[c].org = hl.fwd.org}]
    /\ UNCHANGED <<hubRest, ctxDone>>

\* run: select { case ch <- ev.conflict: default: } for one channel of the
\* map.  A send on a closed channel panics.
FwdSend(c) ==
    /\ hl.fwd.pc = "send" /\ c \in hl.fwd.todo
    /\ hl' = [hl EXCEPT !.fwd.todo = @ \ {c},
                        !.panic = @ \/ hl.ch[c].st = "closed",
                        !.ch[c].n = IF hl.ch[c].st # "closed" /\ @ < SubCap THEN @ + 1 ELSE @]
    /\ UNCHANGED <<hubRest, ctxDone>>

\* run: h.mu.RUnlock() after the range over the channels.
FwdRUnlock ==
    /\ hl.fwd.pc = "send" /\ hl.fwd.todo = {}
    /\ hl' = [hl EXCEPT !.mu.r = 0, !.fwd.pc = "recv"]
    /\ UNCHANGED <<hubRest, ctxDone>>

\* Subscribe: make the channel, Lock, enter it in the map, Unlock.
LockSubscribe(c, org) ==
    /\ hl.ch[c].st = "new" /\ CanLock(hl.mu)
    /\ hl' = [hl EXCEPT !.ch[c] = [st |-> "subscribed", org |-> org, n |-> 0]]
    /\ UNCHANGED <<hubRest, ctxDone>>

\* Unsubscribe: h.mu.Lock().
UnsubLock(c) ==
    /\ hl.ch[c].st = "subscribed" /\ CanLock(hl.mu)
    /\ hl' = [hl EXCEPT !.mu.w = TRUE, !.ch[c].st = "locked"]
    /\ UNCHANGED <<hubRest, ctxDone>>

\* Unsubscribe: delete(h.subs[orgID], ch); h.mu.Unlock().
UnsubDelete(c) ==
    /\ hl.ch[c].st = "locked"
    /\ hl' = [hl EXCEPT !.mu.w = FALSE, !.ch[c].st = "removed"]
    /\ UNCHANGED <<hubRest, ctxDone>>

\* Unsubscribe: close(ch).
UnsubClose(c) ==
    /\ hl.ch[c].st = "removed"
    /\ hl' = [hl EXCEPT !.ch[c].st = "closed"]
    /\ UNCHANGED <<hubRest, ctxDone>>

NextHubLock ==
    \/ \E org \in Orgs : LockPublish(org)
    \/ FwdTake \/ FwdRLock \/ FwdRUnlock
    \/ \E c \in Chans : FwdSend(c)
    \/ \E c \in Chans, org \in Orgs : LockSubscribe(c, org)
    \/ \E c \in Chans : UnsubLock(c) \/ UnsubDelete(c) \/ UnsubClose(c)
    \/ Cancel

Init ==
    /\ InitFetchCtl /\ InitEnroll /\ InitIngest /\ InitRpc /\ InitPresence
    /\ InitConflict
    /\ lastCall = [op |-> ""]
    /\ ctxDone = FALSE
    /\ watch = [pc |-> "select", errs |-> FALSE, after |-> FALSE]
    /\ hl = InitHubLock

NextFetch ==
    \E c \in Consumers : FetchTimeout(c) \/ FetchError(c) \/ FetchBatch(c)

SpecFetch == Init /\ [][NextFetch]_vars
SpecEnrollSeq == Init /\ [][NextEnrollSeq]_vars
SpecEnroll == Init /\ [][NextEnroll]_vars
SpecIngest == Init /\ [][NextIngest]_vars
SpecRpc == Init /\ [][NextRpc]_vars
SpecPresence == Init /\ [][NextPresence]_vars
SpecConflict == Init /\ [][NextConflict]_vars
SpecHub == Init /\ [][NextHub]_vars
SpecTokenIP == Init /\ [][NextTokenIP]_vars
SpecUpsert == Init /\ [][NextUpsert]_vars
NextResolve ==
    \/ \E a \in ConnAgents, addr \in ConnIPs :
          Len(conflicts) < MaxConflicts /\ OnAgentConnect(a, addr, TRUE, TRUE, TRUE, TRUE)
    \/ \E user \in Users \cup {""}, id \in 1..(MaxConflicts + 1), body \in Bodies,
          loadOk \in BOOLEAN, dbOk \in BOOLEAN :
          ResolveConflict(user, id, body, loadOk, dbOk)
    \/ Tick
SpecResolve == Init /\ [][NextResolve]_vars
SpecWatch == Init /\ [][NextWatch]_vars
SpecFallback == Init /\ [][NextFallback]_vars
\* The events consumer runs next to an enrollment handler for the publishing
\* agents.
NextIngestEnroll ==
    \/ Publish("events")
    \/ Deliver("events")
    \/ ProcDecode("events")
    \/ EvGetAgent("events")
    \/ EvCreateAgent("events")
    \/ EvCreateIncident("events")
    \/ MsgAck("events")
    \/ MsgNak("events")
    \/ Begin(1, IngestAgents, {Defects}, FALSE)
    \/ EnrollStep(1)

\* The consumers with the root context cancelled at some point.
NextStop ==
    \/ NextIngest
    \/ Cancel
    \/ \E c \in Consumers : ConsumerExit(c)

\* The loop goroutines keep running, storage calls return, and a Fetch
\* returns within its MaxWait.
SpecStop ==
    /\ Init /\ [][NextStop]_vars
    /\ \A c \in Consumers : WF_vars(LoopStep(c))
SpecEnrollRace == Init /\ [][NextEnrollRace]_vars
SpecIngestEnroll == Init /\ [][NextIngestEnroll]_vars
SpecHubLock == Init /\ [][NextHubLock]_vars
\* The forwarder goroutine and the goroutines inside Unsubscribe keep running.
SpecHubLive ==
    /\ Init /\ [][NextHubLock]_vars
    /\ WF_vars(FwdTake) /\ WF_vars(FwdRLock) /\ WF_vars(FwdRUnlock)
    /\ WF_vars(\E c \in Chans : FwdSend(c))
    /\ WF_vars(\E c \in Chans : UnsubDelete(c))
\* Time passes, the cache server expires keys whose TTL has run out, the
\* worker goroutine receives from its channel and the ticker fires.
SpecPresenceLive ==
    /\ Init /\ [][NextPresenceOk]_vars
    /\ WF_vars(Tick)
    /\ WF_vars(\E a \in PresenceAgents : Expire(a, TRUE))
    /\ WF_vars(HandleExpired(TRUE, TRUE))
    /\ WF_vars(FallbackTick(TRUE, TRUE))

\* C1: in both consumers' fetch loops fetchSize stays within
\* [minFetch, maxFetch] (events 8..512, inventory 32..256) after any sequence
\* of full, partial, empty, timed-out or failed fetches, starting from 64.
FetchSizeWithinBounds ==
    \A c \in Consumers : minFetch(c) <= fetchSize[c] /\ fetchSize[c] <= maxFetch(c)

\* Both clamps have acted: events climbed to its maximum, inventory fell to
\* its minimum and kept receiving empty polls.
FetchSizeAtBothClamps ==
    /\ fetchSize["events"] = MaxFetchEvents /\ fullCount["events"] >= AdaptAfter
    /\ fetchSize["inventory"] = MinFetchInventory /\ emptyCount["inventory"] >= AdaptAfter


\* ------------------------------------------------------------------------
\* Message handling properties
\* ------------------------------------------------------------------------
Calls(m) == {m.calls[k] : k \in DOMAIN m.calls}
Poison(m) == ~Unmarshal(m.data).ok
\* Message i of consumer c is fetched and not yet answered by the loop.
InHand(c, i) == \E k \in DOMAIN con[c].batch : con[c].batch[k] = i
SnapshotKey(m) ==
    [agent |-> agentIDFromSubject(m.subject).id,
     hash  |-> Sha256Hex(MarshalJSON(Unmarshal(m.data)))]
RowsOf(key) == {r \in snapshots : r.agent = key.agent /\ r.hash = key.hash}

\* C2: a message whose payload fails to decode is terminated on its first
\* delivery: it is never nak'd, the loop makes no storage call for it and no
\* incident or snapshot row comes from it, and it is never delivered again.
PoisonTerminatedAtOnce ==
    \A c \in Consumers : \A i \in DOMAIN stream[c] :
        LET m == stream[c][i] IN
        Poison(m) =>
            /\ m.delivered <= 1
            /\ "nak" \notin Calls(m)
            /\ m.st \in {"pending", "inflight", "termed"}
            /\ m.st = "pending" <=> m.delivered = 0
            /\ (m.delivered = 1 /\ ~InHand(c, i)) => m.st = "termed"
            /\ (con[c].batch # <<>> /\ Cur(c) = i) => con[c].pc \in {"process", "ack"}
            /\ ~\E r \in incidents : c = "events" /\ r.from = i
            /\ ~\E r \in snapshots : c = "inventory" /\ r.from = i

\* Both consumers have terminated an undecodable message and moved on.
PoisonHandledByBoth ==
    \A c \in Consumers :
        \E i \in DOMAIN stream[c] :
            /\ Poison(stream[c][i]) /\ stream[c][i].st = "termed"
            /\ ~InHand(c, i)

\* C3: a decodable message is acked only after its storage side effect
\* succeeded: an acked event message has an incident row created from it, and
\* an acked inventory message has a snapshot row with its (agentId, hash).
AckedOnlyAfterStored ==
    /\ \A i \in DOMAIN stream["events"] :
          LET m == stream["events"][i] IN
          (~Poison(m) /\ m.st = "acked") =>
              \E r \in incidents :
                  /\ r.from = i
                  /\ r.agent = Unmarshal(m.data).agent
                  /\ r.type = Unmarshal(m.data).known
    /\ \A i \in DOMAIN stream["inventory"] :
          LET m == stream["inventory"][i] IN
          (~Poison(m) /\ m.st = "acked") => RowsOf(SnapshotKey(m)) # {}

\* An event and an inventory message are acked, and another message was
\* nak'd after a storage failure.
AckedAndNakked ==
    /\ \E i \in DOMAIN stream["events"] : stream["events"][i].st = "acked"
    /\ \E i \in DOMAIN stream["inventory"] : stream["inventory"][i].st = "acked"
    /\ \E c \in Consumers : \E i \in DOMAIN stream[c] : "nak" \in Calls(stream[c][i])

ClampMs(x, lo, hi) == IF x < lo THEN lo ELSE IF x > hi THEN hi ELSE x

\* C11: for every requested timeoutMs the wait deadline of the call equals
\* timeoutMs + 5 s clamped into [15 s, 125 s]: never below 15 s, never above
\* 125 s.
DeadlineIsClampedSum ==
    rpc.pc # "idle" =>
        /\ rpc.timeout = ClampMs(rpc.timeoutMS + 5000, 15000, 125000)
        /\ rpc.timeout >= 15000
        /\ rpc.timeout <= 125000

\* C12: a call whose subject had no subscriber returns AgentOffline (HTTP
\* 404) and never Timeout; a call that ran into the bus timeout returns
\* Timeout (HTTP 504) and never AgentOffline.
OfflineAndTimeoutDistinct ==
    rpc.pc = "done" =>
        /\ ~rpc.heard => (rpc.err = "AgentOffline" /\ rpc.status = 404)
        /\ rpc.busErr = "ErrTimeout" => (rpc.err = "Timeout" /\ rpc.status = 504)
        /\ rpc.err = "AgentOffline" => (~rpc.heard /\ rpc.busErr = "ErrNoResponders")
        /\ rpc.err = "Timeout" => (rpc.heard /\ rpc.busErr = "ErrTimeout")
        /\ rpc.status = 404 <=> rpc.err = "AgentOffline"
        /\ rpc.status = 504 <=> rpc.err = "Timeout"

\* A call to an agent without subscriber has been answered with 404, at a
\* time when another agent is subscribed.
OfflineAnswered ==
    /\ rpc.pc = "done" /\ ~rpc.heard /\ rpc.status = 404
    /\ subs # {} /\ rpc.agent \notin subs

\* ------------------------------------------------------------------------
\* Presence properties

\* C13: when notifications are on and the keyevent worker is subscribed, an
\* agent that has a last_seen key and for which no further KV entry arrives
\* eventually has persisted status offline and cached status offline
\* (expired events delivered, storage and cache calls succeeding).
OfflineAfterExpiry ==
    \A a \in PresenceAgents, n \in 0..MaxBeats :
        (recon.notify /\ recon.keyevent /\ lastSeen[a] # NoEntry /\ beats[a].n = n)
            ~> \/ beats[a].n > n
               \/ agentRows[a].status = "offline" /\ cstatus[a] = "offline"

\* The only KV entry of a1 was a heartbeat, its key has expired and the
\* keyevent worker has set both the row and the cached status to offline.
ExpiredAgentOffline ==
    /\ recon.notify /\ recon.keyevent
    /\ beats["a1"].n = 1 /\ beats["a1"].ts # NotFound
    /\ lastSeen["a1"] = NoEntry
    /\ agentRows["a1"].status = "offline" /\ cstatus["a1"] = "offline"

\* C14: whenever the keyevent worker marks an agent offline, the last_seen_at
\* it writes is the time the agent's last heartbeat wrote into last_seen.
ExpiryKeepsHeartbeatTime ==
    [][\A a \in PresenceAgents :
          (expq # <<>> /\ expq' = Tail(expq) /\ agentRows'[a] # agentRows[a])
              => agentRows'[a].lastSeenAt = beats[a].ts]_vars

\* C15: in every configuration of cache server and subscription, an agent
\* that has a last_seen key and for which no further KV entry arrives
\* eventually has persisted status offline.
StoppedAgentForcedOffline ==
    \A a \in PresenceAgents, n \in 0..MaxBeats :
        (recon.pc = "running" /\ lastSeen[a] # NoEntry /\ beats[a].n = n)
            ~> (beats[a].n > n \/ agentRows[a].status = "offline")

\* C16: the keyevent worker and the fallback reconciler are never both
\* running.
AtMostOneReconciler == ~(recon.keyevent /\ recon.fallback)

\* The fallback reconciler runs and has marked a1 offline after its only
\* heartbeat expired.
FallbackMarkedOffline ==
    /\ recon.fallback
    /\ beats["a1"].n = 1 /\ beats["a1"].ts # NotFound
    /\ lastSeen["a1"] = NoEntry
    /\ agentRows["a1"].status = "offline"

\* ------------------------------------------------------------------------
\* Conflict service and event hub properties

AtMostOneOpenConnection ==
    \A a \in ConnAgents : Cardinality(OpenRows(a)) <= 1

\* C19: no subscriber channel holds more than 10 events; the forwarder can
\* always take the next event from the queue, whatever the channels hold;
\* and each forwarding step appends the event to every channel of the
\* event's organization that has room and leaves the other channels as they
\* are.
ForwarderNeverBlocks ==
    /\ [](\A s \in Subscribers : Len(hub.subs[s].buf) <= SubCap)
    /\ [](hub.queue # <<>> => ENABLED HubRun)
    /\ [][(hub.queue # <<>> /\ hub'.queue = Tail(hub.queue)) =>
            \A s \in Subscribers :
               hub'.subs[s].buf =
                  IF /\ hub.subs[s].org = Head(hub.queue).org
                     /\ Len(hub.subs[s].buf) < SubCap
                  THEN Append(hub.subs[s].buf, Head(hub.queue))
                  ELSE hub.subs[s].buf]_vars

\* s1 and s2 listen to the same organization; the channel of s1 is full and
\* s2 holds an event that was dropped for s1.
DroppedForSlowSubscriber ==
    /\ hub.subs["s1"].org # "" /\ hub.subs["s1"].org = hub.subs["s2"].org
    /\ Len(hub.subs["s1"].buf) = SubCap
    /\ \E i \in 1..Len(hub.subs["s2"].buf) :
          /\ hub.subs["s2"].buf[i].n > hub.subs["s1"].buf[1].n
          /\ \A j \in 1..SubCap : hub.subs["s1"].buf[j] # hub.subs["s2"].buf[i]

\* ------------------------------------------------------------------------
\* Fetch adaptation properties

\* C20: a fetch doubles fetchSize (clamped to maxFetch) exactly when it is
\* full and the two fetches before it, made at the same fetchSize with no
\* partial, empty or failed fetch in between, were full as well; every other
\* fetch leaves fetchSize as it is or lowers it.
DoubledAfterThreeFull ==
    [][\A c \in Consumers :
          LET third == /\ fetched'[c].full
                       /\ Ctl(c)' # Ctl(c)
                       /\ fetched[c].fulls = AdaptAfter - 1
                       /\ fetchSize[c] < maxFetch(c)
          IN /\ fetchSize'[c] > fetchSize[c] <=> third
             /\ third => fetchSize'[c] =
                            IF 2 * fetchSize[c] > maxFetch(c)
                            THEN maxFetch(c) ELSE 2 * fetchSize[c]]_vars

\* C21: a fetch halves fetchSize (clamped to minFetch) exactly when it
\* returned no message, timed out or failed, and so did the two fetches
\* before it, made at the same fetchSize with no non-empty batch in between.
HalvedAfterThreeEmpty ==
    [][\A c \in Consumers :
          LET third == /\ fetched'[c].empty
                       /\ fetched'[c] # fetched[c]
                       /\ fetched[c].empties = AdaptAfter - 1
                       /\ fetchSize[c] > minFetch(c)
          IN /\ fetchSize'[c] < fetchSize[c] <=> third
             /\ third => fetchSize'[c] =
                            IF fetchSize[c] \div 2 < minFetch(c)
                            THEN minFetch(c) ELSE fetchSize[c] \div 2]_vars

\* The events loop went up to 128 and three empty fetches have just
\* brought it back to 64.
HalvedFrom128 ==
    /\ fetchSize["events"] = InitFetch
    /\ fetched["events"].empty /\ fetched["events"].empties = 0
    /\ fetchSize["inventory"] = InitFetch

\* The events loop has just gone from 64 to 128.
NextFetchRequests128 ==
    /\ fetchSize["events"] = 2 * InitFetch
    /\ fetched["events"].full /\ fetched["events"].fulls = 0
    /\ fetchSize["inventory"] = InitFetch

\* ------------------------------------------------------------------------
\* Token validation properties

\* C22: a valid token with a non-empty list of allowed CIDRs is accepted if
\* the request's remote IP parses and lies in one of the listed networks and
\* is refused with TokenIPNotAllowed otherwise; a token without list is
\* accepted from every remote IP, parsable or not.
\* The networks are spelled out: of the addresses used, 10.0.0.0/8 holds
\* 10.1.2.3 and 10.200.0.1, 10.0.0.0/9 holds 10.1.2.3, 192.168.0.0/16 holds
\* 192.168.0.1, and 10.0.0.0/33 is no network.
CidrRestrictsRemoteIP ==
    lastCall.op = "ValidateBootstrapToken" =>
        LET Members(cidr) ==
                CASE cidr = "10.0.0.0/8" -> {"10.1.2.3", "10.200.0.1"}
                  [] cidr = "10.0.0.0/9" -> {"10.1.2.3"}
                  [] cidr = "192.168.0.0/16" -> {"192.168.0.1"}
                  [] OTHER -> {}
            inside == \E cidr \in lastCall.cidrs : lastCall.remoteIP \in Members(cidr)
        IN lastCall.result =
              IF lastCall.cidrs = {} \/ inside THEN "ok" ELSE "TokenIPNotAllowed"

\* A token restricted to 10.0.0.0/8 has just refused 192.168.0.1.
OutsideCidrRefused ==
    /\ lastCall.op = "ValidateBootstrapToken"
    /\ lastCall.cidrs = {"10.0.0.0/8"} /\ lastCall.remoteIP = "192.168.0.1"
    /\ lastCall.result = "TokenIPNotAllowed"

\* ------------------------------------------------------------------------
\* Upsert-agent merge
\* ------------------------------------------------------------------------
\* The last call was a successful CreateAgent on an agent that had a row.
UpsertedExisting ==
    lastCall.op = "CreateAgent" /\ lastCall.ok /\ lastCall.old.present

\* An empty organization, name or hardware fingerprint keeps the stored one.
KeepsOrgNameFingerprint ==
    UpsertedExisting =>
        LET new == agents[lastCall.agent] IN
        /\ lastCall.in.org = "" => new.org = lastCall.old.org
        /\ lastCall.in.name = "" => new.name = lastCall.old.name
        /\ lastCall.in.fp = "" => new.fp = lastCall.old.fp

\* A nil tag list keeps the stored tags.
KeepsTagsOnNil ==
    UpsertedExisting /\ lastCall.in.tags.isNil =>
        agents[lastCall.agent].tags = lastCall.old.tags

\* C23: an upsert on an existing agentId leaves the stored name, hardware
\* fingerprint, tags and organization unchanged when the incoming name is
\* empty, the fingerprint is empty, the tag list is nil or the organization
\* is empty.
UpsertPreservesEmptyFields == KeepsOrgNameFingerprint /\ KeepsTagsOnNil

\* ------------------------------------------------------------------------
\* Conflict resolution
\* ------------------------------------------------------------------------
\* C24: a resolve request for an existing conflict, made by an authorized
\* user with the database working, is accepted exactly for keep_existing,
\* keep_new and revoke_both and then stores existing_wins, new_wins or
\* both_disconnected with the resolver and the time of the call; a request
\* with any other input is rejected and changes no conflict row.
ResolveAcceptsExactlyThree ==
    [][\A user \in Users \cup {""}, id \in 1..Len(conflicts), body \in Bodies,
          loadOk \in BOOLEAN, dbOk \in BOOLEAN :
          ResolveConflict(user, id, body, loadOk, dbOk) =>
             LET Stored == [keep_existing |-> "existing_wins", keep_new |-> "new_wins",
                            revoke_both |-> "both_disconnected"]
                 input == body.resolution
                 valid == body.decodes /\ input \in DOMAIN Stored
                 code == ResolveStatus(user, id, body, loadOk, dbOk)
             IN /\ valid /\ user = "u1" /\ loadOk /\ dbOk => code = 200
                /\ valid => code # 400
                /\ ~valid => code # 200 /\ conflicts' = conflicts
                /\ code # 200 => conflicts' = conflicts
                /\ code = 200 =>
                      /\ valid
                      /\ conflicts' =
                            [conflicts EXCEPT ![id] =
                                [@ EXCEPT !.resolution = Stored[input],
                                          !.resolvedBy = user,
                                          !.resolvedAt = clock]]]_vars

\* A conflict was resolved with new_wins by u1 some time after the start.
ResolvedNewWins ==
    \E i \in 1..Len(conflicts) :
        /\ conflicts[i].resolution = "new_wins" /\ conflicts[i].resolvedBy = "u1"
        /\ conflicts[i].resolvedAt > 0

\* ------------------------------------------------------------------------
\* Acknowledgement calls
\* ------------------------------------------------------------------------
\* C25: the loop issues exactly one acknowledgement call (ack, nak or term)
\* per delivery of a message, and a message terminated because it failed to
\* decode is not acked afterwards.
OneAckCallPerDelivery ==
    \A c \in Consumers : \A i \in DOMAIN stream[c] :
        LET m == stream[c][i] IN
        /\ Len(m.calls) <= m.delivered
        /\ ~InHand(c, i) => Len(m.calls) = m.delivered
        /\ "term" \in Calls(m) => "ack" \notin Calls(m)

\* The storage call the loop is making for its current message fails: the
\* database refuses it, or the agent row it refers to does not exist.
SideEffectFails(c) ==
    \/ dbFails' # dbFails
    \/ c = "events" /\ con[c].pc = "createIncident" /\ ~AgentExists(EventAgent(c))
    \/ c = "inventory" /\ con[c].pc = "insert"
          /\ ~(agentIDFromSubject(CurMsg(c).subject).ok
               /\ AgentExists(agentIDFromSubject(CurMsg(c).subject).id))

\* C26: a decodable message whose storage side effect fails is nak'd, and is
\* neither acked nor terminated on that delivery; a message that fails on
\* every attempt is delivered at most MaxDeliver (3) times and is then never
\* delivered again; a message that succeeds on a redelivery is acked.
NakOnFailureUpToMaxDeliver ==
    /\ [](\A c \in Consumers : \A i \in DOMAIN stream[c] :
            LET m == stream[c][i] IN
            /\ m.delivered <= MaxDeliver
            /\ ~Poison(m) =>
                  /\ "term" \notin Calls(m)
                  /\ Len(m.calls) <= m.delivered
                  /\ \A k \in DOMAIN m.calls :
                        m.calls[k] = "ack" => k = Len(m.calls) /\ m.st = "acked"
                  /\ (m.delivered = MaxDeliver /\ Len(m.calls) = MaxDeliver
                        /\ m.calls[MaxDeliver] = "nak") => m.st = "dead"
                  /\ m.st = "dead" =>
                        m.calls = [k \in 1..MaxDeliver |-> "nak"]
                  /\ m.st = "pending" => m.delivered < MaxDeliver)
    /\ [][\A c \in Consumers :
            (con[c].pc \in {"getAgent", "createAgent", "createIncident", "insert"}
               /\ con'[c].pc # con[c].pc) =>
                 /\ SideEffectFails(c) => con'[c].pc = "nak"
                 /\ con'[c].pc = "ack" => ~SideEffectFails(c)
                 /\ stream' = stream]_vars
    /\ [][\A c \in Consumers :
            con[c].pc = "nak" /\ con'[c].pc # "nak" =>
               /\ stream'[c][Cur(c)].calls = Append(CurMsg(c).calls, "nak")
               /\ stream'[c][Cur(c)].st = IF CurMsg(c).delivered < MaxDeliver
                                          THEN "pending" ELSE "dead"]_vars

\* One message failed on all three deliveries and is dead, and another was
\* nak'd on its first delivery and acked on its second.
DeadAfterThreeAndAckedOnRetry ==
    /\ \E c \in Consumers : \E i \in DOMAIN stream[c] :
          stream[c][i].st = "dead" /\ stream[c][i].delivered = MaxDeliver
    /\ \E c \in Consumers : \E i \in DOMAIN stream[c] :
          stream[c][i].st = "acked" /\ stream[c][i].calls = <<"nak", "ack">>

\* ------------------------------------------------------------------------
\* Presence: reconcilers and the key-value watcher
\* ------------------------------------------------------------------------
\* The cache holds a last_seen entry for a whose TTL has not run out.
LiveEntry(a) == lastSeen[a] # NoEntry /\ clock < lastSeen[a].exp

\* C27: whenever a reconciler (the keyevent worker or the fallback scan)
\* writes status offline to the row of agent a, the cache holds no unexpired
\* last_seen entry for a at that moment.
OfflineWriteOnlyWithoutLiveEntry ==
    [][\A a \in PresenceAgents :
          (/\ \/ \E dbOk \in BOOLEAN, cacheOk \in BOOLEAN : HandleExpired(dbOk, cacheOk)
              \/ \E listOk \in BOOLEAN, dbOk \in BOOLEAN : FallbackTick(listOk, dbOk)
           /\ agentRows'[a] # agentRows[a]
           /\ agentRows'[a].status = "offline")
          => ~LiveEntry(a)]_vars

\* C28: a Put whose value decodes and whose last_seen write succeeds stores
\* lastSeen[a] = now with a TTL of 150 s and turns the cached status online
\* exactly when the status read was offline; a Put whose value does not
\* decode or whose last_seen write fails changes neither lastSeen[a] nor the
\* cached status.
PutRefreshesPresence ==
    [][\A a \in PresenceAgents, decodes \in BOOLEAN, cacheOk \in BOOLEAN,
          statusOk \in BOOLEAN :
          Heartbeat(a, decodes, cacheOk, statusOk) =>
             IF decodes /\ cacheOk
             THEN /\ lastSeen'[a] = [ts |-> clock, exp |-> clock + 150]
                  /\ (statusOk /\ cstatus[a] = "offline") => cstatus'[a] = "online"
                  /\ cstatus[a] # "offline" => cstatus'[a] = cstatus[a]
                  /\ cstatus'[a] \in {cstatus[a], "online"}
             ELSE lastSeen'[a] = lastSeen[a] /\ cstatus'[a] = cstatus[a]]_vars

\* A heartbeat found the cached status offline and turned it online, and
\* its last_seen entry is in place.
BackOnlineInCache ==
    \E a \in PresenceAgents :
        /\ cstatus[a] = "online"
        /\ lastSeen[a] = [ts |-> beats[a].ts, exp |-> beats[a].ts + 150]
        /\ beats[a].n = 2

\* C29: a Put never writes the agent row: a row that is offline stays
\* offline over any number of Puts, also when the cached status turns online.
PutLeavesRowAlone ==
    [][\A a \in PresenceAgents, decodes \in BOOLEAN, cacheOk \in BOOLEAN,
          statusOk \in BOOLEAN :
          Heartbeat(a, decodes, cacheOk, statusOk) => agentRows' = agentRows]_vars

\* The row is offline while the cache says online and holds a live entry.
RowOfflineCacheOnline ==
    \E a \in PresenceAgents :
        /\ agentRows[a].status = "offline"
        /\ cstatus[a] = "online"
        /\ LiveEntry(a)

\* C30: a Delete for key a sets the status of row a to offline and changes
\* no cache entry; a Purge changes neither the rows nor the cache.
DeleteMarksOfflinePurgeNothing ==
    [][\A a \in PresenceAgents :
          /\ \A dbOk \in BOOLEAN :
                KVDelete(a, dbOk) =>
                   /\ dbOk => agentRows'[a].status = "offline"
                   /\ \A b \in PresenceAgents \ {a} : agentRows'[b] = agentRows[b]
                   /\ lastSeen' = lastSeen /\ cstatus' = cstatus
          /\ KVPurge(a) =>
                agentRows' = agentRows /\ lastSeen' = lastSeen /\ cstatus' = cstatus]_vars

\* A Delete arrived while the agent's heartbeat entry was live: the row is
\* offline and the cache still has the entry.
DeletedWithLiveEntry ==
    \E a \in PresenceAgents :
        /\ agentRows[a].status = "offline"
        /\ agentRows[a].lastSeenAt = clock
        /\ LiveEntry(a) /\ cstatus[a] = ""

\* C32: the keyevent worker sets the cached status of an agent to offline
\* only when the row update for that expiry has succeeded; when the row
\* update fails the cached status stays as it was.
CacheOfflineOnlyAfterRowOffline ==
    [][\A dbOk \in BOOLEAN, cacheOk \in BOOLEAN :
          HandleExpired(dbOk, cacheOk) =>
             /\ ~dbOk => cstatus' = cstatus /\ agentRows' = agentRows
             /\ \A a \in DOMAIN cstatus :
                   cstatus'[a] # cstatus[a] =>
                      /\ dbOk /\ cacheOk
                      /\ cstatus'[a] = "offline"
                      /\ agentRows'[a].status = "offline"
                      /\ Head(expq) = [prefix |-> "ops:agent:last_seen:", id |-> a]]_vars

\* The worker has handled the expiry of an agent's key: row and cached
\* status are offline and no event is waiting.
ExpiryMirroredInCache ==
    \E a \in PresenceAgents :
        /\ recon.keyevent /\ expq = <<>>
        /\ lastSeen[a] = NoEntry
        /\ agentRows[a].status = "offline" /\ cstatus[a] = "offline"

\* C31: an error while one KV update is handled never stops the watch
\* loop: the loop has returned only if the root context was cancelled, every
\* handled update leaves it at its select, and while it is there the next
\* update can be handled.
WatchLoopSurvivesErrors ==
    /\ [](watch.pc = "done" => ctxDone)
    /\ [][beats' # beats => watch'.pc = "select"]_vars
    /\ [](\A a \in PresenceAgents :
            (recon.pc = "running" /\ ~ctxDone /\ beats[a].n < MaxBeats)
               => ENABLED KVPurge(a) /\ ENABLED KVDelete(a, TRUE))

\* An update was handled without error after the handling of an earlier one
\* had met an error, and the context is not cancelled.
HandledAfterError == watch.errs /\ watch.after /\ watch.pc = "select" /\ ~ctxDone

\* C33: a pass of the fallback reconciler forces offline exactly the listed
\* agents whose last_seen lookup returns NotFound; an agent whose lookup
\* succeeds or fails with another cache error keeps its row, and a failed
\* row update for one agent does not keep the others from being examined.
PassForcesExactlyMissing ==
    [][\A listOk \in BOOLEAN, cacheErr \in CacheErrs, dbFail \in DbFails :
          ReconcilePass(listOk, cacheErr, dbFail) =>
             \A a \in ListedAgents :
                LET notFound == /\ listOk /\ agentRows[a].status # ""
                                /\ a \notin cacheErr /\ lastSeen[a] = NoEntry
                IN IF notFound /\ a \notin dbFail
                   THEN agentRows'[a] = [status |-> "offline", lastSeenAt |-> clock - 120]
                   ELSE agentRows'[a] = agentRows[a]]_vars

\* A pass has forced a2, which has no last_seen key, offline and has left
\* a1, whose key is live, online.
OnlyMissingForcedOffline ==
    /\ recon.fallback
    /\ agentRows["a2"].status = "offline" /\ lastSeen["a2"] = NoEntry
    /\ agentRows["a1"].status = "online" /\ LiveEntry("a1")

\* ------------------------------------------------------------------------
\* Event hub: organizations, locking, termination
\* ------------------------------------------------------------------------
\* C34: an event published under organization O reaches only channels
\* subscribed under O: every event a channel holds carries the organization
\* the channel was subscribed under, and a forwarding step changes no channel
\* of another organization.
EventsStayInOrganization ==
    /\ [](\A s \in Subscribers :
            \A i \in 1..Len(hub.subs[s].buf) : hub.subs[s].buf[i].org = hub.subs[s].org)
    /\ [][(hub.queue # <<>> /\ hub'.queue = Tail(hub.queue)) =>
            \A s \in Subscribers :
               hub.subs[s].org # Head(hub.queue).org => hub'.subs[s] = hub.subs[s]]_vars

\* s1 listens to o1 and s2 to o2, events of both organizations have been
\* forwarded, and each channel holds events of its own organization only.
BothOrganizationsServed ==
    /\ hub.subs["s1"].org = "o1" /\ hub.subs["s2"].org = "o2"
    /\ hub.subs["s1"].buf # <<>> /\ hub.subs["s2"].buf # <<>>
    /\ hub.subs["s1"].buf[1].org = "o1" /\ hub.subs["s2"].buf[1].org = "o2"

\* C35: the forwarder never sends on a closed channel: no send has met a
\* closed channel; the channels the forwarder has still to send to are in
\* the map, and it holds the read lock while it has any; a channel out of
\* the map or closed is none of them.
NoSendOnClosedChannel ==
    /\ ~hl.panic
    /\ \A c \in hl.fwd.todo : hl.ch[c].st \in {"subscribed", "locked"}
    /\ hl.fwd.pc = "send" => hl.mu.r = 1 /\ ~hl.mu.w
    /\ hl.fwd.pc # "send" => hl.fwd.todo = {} /\ hl.mu.r = 0
    /\ hl.mu.w <=> \E c \in Chans : hl.ch[c].st = "locked"

\* The forwarder holds the read lock and has a channel left to send to,
\* while another channel of the same organization has been removed and
\* closed.
SendingWhileOtherClosed ==
    \E c \in Chans, d \in Chans :
        /\ hl.fwd.pc = "send" /\ c \in hl.fwd.todo
        /\ hl.ch[d].st = "closed" /\ hl.ch[d].org = hl.fwd.org /\ hl.ch[d].n > 0

\* C36: after root cancellation the forwarder forwards the events still in
\* its queue and then terminates.
ForwarderDrainsAndExits ==
    ctxDone ~> (hl.q = <<>> /\ hl.fwd.pc = "done")

\* ------------------------------------------------------------------------
\* Shutdown of the stream consumers

\* C37: after root cancellation a consumer starts no new fetch once the
\* batch in hand is finished (no step taken with the context cancelled
\* brings a loop to a Fetch, and a loop that has returned stays so), every
\* message of a batch already fetched has had its ack, nak or term when the
\* loop has returned, and the loop returns.
ConsumerStopsAfterBatch ==
    /\ [](\A c \in Consumers : con[c].pc = "done" =>
             /\ con[c].batch = <<>>
             /\ \A i \in DOMAIN stream[c] :
                   /\ stream[c][i].st # "inflight"
                   /\ stream[c][i].delivered > 0 => stream[c][i].calls # <<>>)
    /\ [][\A c \in Consumers :
            /\ (ctxDone /\ con[c].pc # "fetch") => con'[c].pc # "fetch"
            /\ con[c].pc = "done" => con'[c] = con[c]]_vars
    /\ (ctxDone ~> \A c \in Consumers : con[c].pc = "done")

\* The context is cancelled; the events loop has returned after handling a
\* message, and the inventory loop still has its batch in hand.
StoppedWithBatchInHand ==
    /\ ctxDone
    /\ con["events"].pc = "done"
    /\ \E i \in DOMAIN stream["events"] : stream["events"][i].calls # <<>>
    /\ con["inventory"].pc \in {"ack", "nak"}

\* ------------------------------------------------------------------------
\* Concurrent enrollments and event processing

\* C38: under any interleaving of concurrent enrollments with the token t1
\* (maxUses = TokenMaxUses), at most TokenMaxUses of them succeed and the
\* token's useCount never exceeds TokenMaxUses.
TokenUsesNeverExceedMax ==
    /\ hist.succ["t1"] <= TokenMaxUses
    /\ tokens["t1"].useCount <= TokenMaxUses

\* As C38, for the successful enrollments alone.
SuccessesNeverExceedMax == hist.succ["t1"] <= TokenMaxUses

\* C39: an enrollment for an agent id whose row belongs to another
\* organization than the token's is answered Forbidden and has changed no
\* agent, credential or token row; a row without organization is not
\* rejected on that ground, and an enrollment that succeeds on such a row
\* leaves it with the token's organization.
CrossOrgForbiddenWithoutChange ==
    \A r \in Slots :
       LET q == enr[r]
           before == q.pre.agents[q.agent]
           other == before.present /\ before.org # "" /\ before.org # tokens[q.tok].org
       IN (q.pc = "done" /\ q.agent \in AgentIds) =>
            /\ other =>
                  /\ q.resp = "ForbiddenOrg"
                  /\ agents = q.pre.agents
                  /\ creds = q.pre.creds
                  /\ tokens = q.pre.tokens
            /\ q.resp = "ForbiddenOrg" => other
            /\ (before.present /\ before.org = "" /\ q.resp = "Created") =>
                  agents[q.agent].org = tokens[q.tok].org

\* A request has been answered Forbidden because the agent's row is another
\* organization's, while the other agent's row, which had no organization,
\* has been enrolled into the organization of its token.
ForbiddenForOtherOrg ==
    \E r \in Slots, b \in AgentIds :
       /\ enr[r].pc = "done" /\ enr[r].resp = "ForbiddenOrg"
       /\ b # enr[r].agent
       /\ agents[b].present /\ agents[b].org # "" /\ hist.firstKey[b].src = "server"

\* C40: processing an event creates an agent row only when none exists for
\* the event's agent id, and otherwise leaves the existing row as it is,
\* also when an enrollment of the same agent id runs at the same time: a
\* step of the events consumer changes no agent row that exists.
EventKeepsExistingRow ==
    [][\A c \in Consumers :
         (EvGetAgent(c) \/ EvCreateAgent(c) \/ EvCreateIncident(c)) =>
            \A a \in AgentIds : agents[a].present => agents'[a] = agents[a]]_vars

\* ------------------------------------------------------------------------
\* Enrollment and credential properties
\* ------------------------------------------------------------------------
PinnedActive(a) == {c \in creds : c.agent = a /\ c.pinned /\ ~c.revoked}

Done(r) == enr[r].pc = "done"
\* The request got past screening and token validation.
Admitted(r) == enr[r].agent # ""
DbUnchangedSince(r) ==
    /\ agents = enr[r].pre.agents
    /\ creds = enr[r].pre.creds
    /\ tokens = enr[r].pre.tokens

\* C5: under any interleaving of enrollments, console agent creations and
\* credential rotations, every agent has at most one credential that is both
\* pinned and not revoked.
AtMostOnePinnedActive ==
    \A a \in AgentIds : Cardinality(PinnedActive(a)) <= 1

\* Two enrollments of one agent raced with different keys, both saw no pinned
\* key, and the second insert of a pinned row was refused.
PinnedRaceRefused ==
    \E r \in Slots :
        /\ Done(r) /\ enr[r].resp = "StoreCredentialsFailed"
        /\ enr[r].existingKey = NoKey
        /\ \E c \in PinnedActive(enr[r].agent) : c.key # enr[r].key

\* C6: enrolling agent A with key K and then A with K again, with the same
\* bootstrap token still under maxUses, succeeds both times and leaves exactly
\* one pinned credential for A.
ReenrollSameKeySucceeds ==
    \A r \in Slots :
        (/\ Done(r) /\ Admitted(r)
         /\ enr[r].pre.hist.lastKey[enr[r].agent] = enr[r].key
         /\ enr[r].pre.hist.lastTok[enr[r].agent] = enr[r].tok)
        => (/\ enr[r].resp = "Created"
            /\ Cardinality({c \in creds : c.agent = enr[r].agent /\ c.pinned}) = 1)

\* C7: after Enroll(A, K1) succeeded, Enroll(A, K2) with K2 # K1 is rejected
\* as Forbidden (the pinned-key mismatch, when the token is of the agent's
\* organization) and leaves agent row, credential rows and token useCount as
\* they were.
DifferentKeyForbidden ==
    \A r \in Slots :
        (/\ Done(r) /\ Admitted(r)
         /\ enr[r].pre.hist.lastKey[enr[r].agent] # NoKey
         /\ enr[r].pre.hist.lastKey[enr[r].agent] # enr[r].key)
        => (/\ HttpStatus(enr[r].resp) = 403
            /\ (tokens[enr[r].tok].org = agents[enr[r].agent].org
                    => enr[r].resp = "ForbiddenKey")
            /\ DbUnchangedSince(r))

\* The second enrollment, with another key, has been answered.
DifferentKeyAttempted ==
    \E r \in Slots :
        /\ Done(r) /\ enr[r].resp = "ForbiddenKey"
        /\ enr[r].pre.hist.lastKey[enr[r].agent] # NoKey
        /\ enr[r].pre.hist.lastKey[enr[r].agent] # enr[r].key

\* C8: once an agent has registered its first key K, no later enrollment with
\* a key other than K succeeds, whatever enrollments and rotations happen in
\* between, and the pinned credential stays the agent's first one.
PinnedKeyContinuity ==
    /\ \A r \in Slots :
          (Done(r) /\ enr[r].resp = "Created")
          => enr[r].key = hist.firstKey[enr[r].agent]
    /\ \A c \in creds :
          (c.pinned /\ ~c.revoked) => c.key = hist.firstKey[c.agent]

\* C9: for a bootstrap token with maxUses = N that is neither revoked nor
\* expired, after N successful enrollments the next well-formed attempt fails
\* with TokenUsageLimitReached and changes no agent, credential or usage state.
LimitReachedAfterMaxUses ==
    \A r \in Slots :
        (/\ Done(r) /\ enr[r].tok \in TokenIds
         /\ enr[r].pre.tokens[enr[r].tok].hasMax
         /\ ~enr[r].pre.tokens[enr[r].tok].revoked
         /\ ~enr[r].pre.tokens[enr[r].tok].expired
         /\ enr[r].pre.hist.succ[enr[r].tok] = enr[r].pre.tokens[enr[r].tok].maxUses)
        => (enr[r].resp = "TokenUsageLimitReached" /\ DbUnchangedSince(r))

\* The attempt after the N-th success has been answered.
AttemptAfterMaxUses ==
    \E r \in Slots :
        /\ Done(r) /\ enr[r].resp = "TokenUsageLimitReached"
        /\ enr[r].pre.hist.succ[enr[r].tok] = TokenMaxUses

\* C10: enrollment is all-or-nothing: a request that returns an error leaves
\* the agent rows, credential rows and token useCounts exactly as they were;
\* a successful one upserts the agent, adds one to useCount and inserts a
\* credential.
EnrollAllOrNothing ==
    \A r \in Slots :
        Done(r) =>
            IF enr[r].resp = "Created"
            THEN /\ agents[enr[r].agent].present
                 /\ tokens[enr[r].tok].useCount = enr[r].pre.tokens[enr[r].tok].useCount + 1
                 /\ creds \ enr[r].pre.creds =
                        {CredRow(enr[r].agent, enr[r].key, enr[r].existingKey = NoKey)}
            ELSE DbUnchangedSince(r)

====
